---- MODULE Spec2Model ----
(***************************************************************************)
(* Model of evg-module-manager's multi-repository orchestration.           *)
(*                                                                         *)
(* One CLI invocation is one action: the whole handler runs, every         *)
(* external call it makes (git, gh, evergreen, filesystem) is appended to  *)
(* the call log `last.log`, and the outcome is stored in `last`.  The      *)
(* process then exits (Exit) before the next command starts.  The only     *)
(* state that survives between commands is the filesystem: the prefix      *)
(* directories, the module symlinks and the shared clones.                 *)
(***************************************************************************)
EXTENDS Integers, Sequences, FiniteSets, TLC

VARIABLES
    dirs,    \* prefix directories that exist
    links,   \* modules whose symlink prefix/name exists
    clones,  \* modules whose shared clone exists in the modules directory
    last,    \* record of the command that ran last (op = "none": idle)
    bisect   \* the bisect state file of the working directory (NoFile: none)

vars == <<dirs, links, clones, last, bisect>>

(***************************************************************************)
(* Bounds                                                                  *)
(***************************************************************************)
NumModules == 2

(***************************************************************************)
(* Project configuration: the declared modules, in configuration order.    *)
(***************************************************************************)
AllNames    == <<"mod_a", "mod_b", "mod_c", "mod_d">>
AllPrefixes == <<"src/modules", "src/third_party", "src/modules", "src/third_party">>

ModuleOrder == [i \in 1..NumModules |-> AllNames[i]]
Modules     == {ModuleOrder[i] : i \in 1..NumModules}
UnknownName == "not_declared"

IndexOf(m)  == CHOOSE i \in 1..NumModules : ModuleOrder[i] = m
PrefixOf(m) == AllPrefixes[IndexOf(m)]

BASE_REPO      == "base"
BASE_ERROR_KEY == "BASE"
NoDir          == <<>>
NoValue        == "-"
ProjectBranch  == "main"

ModuleDir(m)    == <<PrefixOf(m), m>>
ModuleBranch(m) == "branch_" \o m

Revs    == {"rev_1", "rev_2"}
UserRev == "rev_user"

GitActions == {"checkout", "rebase", "merge"}

(***************************************************************************)
(* Sequence helpers                                                        *)
(***************************************************************************)
Min(S) == CHOOSE x \in S : \A y \in S : x <= y

RECURSIVE Flatten(_)
Flatten(ss) == IF ss = <<>> THEN <<>> ELSE Head(ss) \o Flatten(Tail(ss))

Range(s) == {s[i] : i \in 1..Len(s)}

\* the subsequence of the elements of s that are in S
Filter(s, S) == LET T(x) == x \in S IN SelectSeq(s, T)

(***************************************************************************)
(* Manifests returned by the build system                                  *)
(***************************************************************************)
NoModulesManifest == [has |-> FALSE, mods |-> <<>>]
Manifests ==
    {NoModulesManifest} \cup
    {[has |-> TRUE, mods |-> f] : f \in UNION {[S -> Revs] : S \in SUBSET Modules}}

(***************************************************************************)
(* Steps.  A handler is translated to the sequence of steps it would take  *)
(* if nothing failed (its plan).  A step is an external call or a raise.   *)
(*   tool   : "git", "gh", "evg", "fs", or "raise" (no call, just raising) *)
(*   caught : a failure of this call is caught by the handler              *)
(*   err    : the error this step raises by itself ("" if none)            *)
(***************************************************************************)
Step(tool, cmd, repo, dir, rev, br) ==
    [tool |-> tool, cmd |-> cmd, repo |-> repo, dir |-> dir, rev |-> rev,
     br |-> br, caught |-> FALSE, err |-> "", ok |-> TRUE, by |-> "",
     data |-> <<>>]

Git(cmd, repo, dir, rev, br) == Step("git", cmd, repo, dir, rev, br)
Gh(cmd, repo, dir, url, data) ==
    [Step("gh", cmd, repo, dir, url, NoValue) EXCEPT !.data = data]
Evg(cmd, rev)                == Step("evg", cmd, BASE_REPO, NoDir, rev, NoValue)
Fs(cmd, repo, dir)           == Step("fs", cmd, repo, dir, NoValue, NoValue)
\* a run of the evergreen command line client in a directory
EvgCli(cmd, repo, dir, patch_id, args) ==
    [Step("evergreen", cmd, repo, dir, patch_id, NoValue) EXCEPT !.data = args]
Raise(err, repo) ==
    [Step("raise", "raise", repo, NoDir, NoValue, NoValue) EXCEPT !.err = err]

ExternalTools == {"git", "gh", "evg", "evergreen"}
ProcessError  == "ProcessExecutionError"

(***************************************************************************)
(* Running a plan.  failAt is the position of the uncaught external call   *)
(* that fails (0: none); caughtFails are the repositories whose caught     *)
(* call fails.  Execution stops at the first step that raises.             *)
(***************************************************************************)
StepFails(plan, i, failAt, caughtFails) ==
    \/ plan[i].err # ""
    \/ i = failAt /\ ~plan[i].caught
    \/ plan[i].caught /\ plan[i].repo \in caughtFails

Stops(plan, failAt, caughtFails) ==
    {i \in 1..Len(plan) : StepFails(plan, i, failAt, caughtFails) /\ ~plan[i].caught}

StopAt(plan, failAt, caughtFails) ==
    IF Stops(plan, failAt, caughtFails) = {} THEN 0
    ELSE Min(Stops(plan, failAt, caughtFails))

Executed(plan, failAt, caughtFails) ==
    LET stop == StopAt(plan, failAt, caughtFails)
        n    == IF stop = 0 THEN Len(plan) ELSE stop
    IN  [i \in 1..n |->
            [plan[i] EXCEPT !.ok = ~StepFails(plan, i, failAt, caughtFails)]]

IsCall(s) == s.tool # "raise"

\* the steps of a callee, marked with the function that issues them
IssuedBy(by, steps) == [i \in 1..Len(steps) |-> [steps[i] EXCEPT !.by = by]]

Run(plan, failAt, caughtFails) ==
    LET stop == StopAt(plan, failAt, caughtFails)
    IN  [log |-> SelectSeq(Executed(plan, failAt, caughtFails), IsCall),
         ok  |-> stop = 0,
         err |-> IF stop = 0 THEN ""
                 ELSE IF plan[stop].err # "" THEN plan[stop].err
                 ELSE ProcessError]

\* the repositories in which the plan makes a call whose failure is caught
Attempts(plan) == {plan[i].repo : i \in {j \in 1..Len(plan) : plan[j].caught}}

\* failAt must point at an external call that is not caught
ValidFailAt(plan, failAt) ==
    \/ failAt = 0
    \/ /\ failAt \in 1..Len(plan)
       /\ plan[failAt].tool \in ExternalTools
       /\ ~plan[failAt].caught
       /\ \A i \in 1..failAt : plan[i].err = ""

(***************************************************************************)
(* FileService / ModulesService queries                                    *)
(***************************************************************************)
\* Path.exists() follows symlinks: a link whose clone is gone does not exist
path_exists_link(m, ls, cs) == m \in ls /\ m \in cs

is_module_enabled(m, ls, cs) == path_exists_link(m, ls, cs)

\* mutant: the enabled flag is ignored
get_all_modules_unfiltered(enabled, ls, cs) == ModuleOrder

\* the module names get_all_modules returns, in configuration order
get_all_modules(enabled, ls, cs) ==
    LET Pred(m) == IF enabled THEN is_module_enabled(m, ls, cs) ELSE TRUE
    IN  SelectSeq(ModuleOrder, Pred)

(***************************************************************************)
(* ModulesService                                                          *)
(***************************************************************************)
ModulesDir == <<"modules_directory">>

\* mutant: a name missing from the configuration is not refused
get_module_data_unchecked(name) ==
    <<Evg("get_module_map", NoValue)>>

\* get_module_data: look the module up in the project configuration
get_module_data(name) ==
    <<Evg("get_module_map", NoValue)>> \o
    (IF name \notin Modules THEN <<Raise("ModuleUnknown", name)>> ELSE <<>>)

\* get_evg_manifest: the manifest pinned at merge-base(project branch, HEAD)
get_evg_manifest ==
    <<Evg("get_project_branch", NoValue),
      Git("merge_base", BASE_REPO, NoDir, "HEAD", ProjectBranch),
      Evg("get_manifest", "merge_base")>>

\* mutant: the working tree is moved before the remote is fetched
sync_module_move_first(m, manifest) ==
    get_evg_manifest \o
    (IF ~manifest.has THEN <<Raise("ManifestMissing", m)>>
     ELSE IF m \notin DOMAIN manifest.mods THEN <<Raise("ModuleNotInManifest", m)>>
     ELSE <<Git("checkout", m, ModuleDir(m), manifest.mods[m], NoValue),
            Git("fetch", m, ModuleDir(m), NoValue, NoValue)>>)

\* mutant: a module the manifest does not pin is synced to the branch head
sync_module_defaulted(m, manifest) ==
    get_evg_manifest \o
    <<Git("fetch", m, ModuleDir(m), NoValue, NoValue),
      Git("checkout", m, ModuleDir(m),
          IF manifest.has /\ m \in DOMAIN manifest.mods
              THEN manifest.mods[m] ELSE ModuleBranch(m),
          NoValue)>>

\* sync_module: checkout the revision the manifest pins for the module
sync_module(m, manifest) ==
    get_evg_manifest \o
    (IF ~manifest.has THEN <<Raise("ManifestMissing", m)>>
     ELSE IF m \notin DOMAIN manifest.mods THEN <<Raise("ModuleNotInManifest", m)>>
     ELSE <<Git("fetch", m, ModuleDir(m), NoValue, NoValue),
            Git("checkout", m, ModuleDir(m), manifest.mods[m], NoValue)>>)

\* mutant: the module is cloned whether or not the shared clone exists
enable_always_clone(name, sync_commit, manifest, ds, ls, cs) ==
    get_module_data(name) \o
    (IF name \notin Modules THEN <<>>
     ELSE
        (IF PrefixOf(name) \notin ds
            THEN <<Fs("mkdirs", name, <<PrefixOf(name)>>)>> ELSE <<>>) \o
        (IF path_exists_link(name, ls, cs) THEN <<Raise("AlreadyEnabled", name)>>
         ELSE
            <<Git("clone", name, ModulesDir, NoValue, ModuleBranch(name))>> \o
            <<[Fs("symlink", name, ModuleDir(name)) EXCEPT
                  !.err = IF name \in ls THEN "FileExistsError" ELSE ""]>> \o
            (IF sync_commit THEN sync_module(name, manifest) ELSE <<>>)))

\* mutant: the check for an existing link path is missing
enable_unguarded(name, sync_commit, manifest, ds, ls, cs) ==
    get_module_data(name) \o
    (IF name \notin Modules THEN <<>>
     ELSE
        (IF PrefixOf(name) \notin ds
            THEN <<Fs("mkdirs", name, <<PrefixOf(name)>>)>> ELSE <<>>) \o
        (IF name \notin cs
            THEN <<Git("clone", name, ModulesDir, NoValue, ModuleBranch(name))>>
            ELSE <<>>) \o
        <<[Fs("symlink", name, ModuleDir(name)) EXCEPT
              !.err = IF name \in ls THEN "FileExistsError" ELSE ""]>> \o
        (IF sync_commit THEN sync_module(name, manifest) ELSE <<>>))

\* enable: the steps of ModulesService.enable in the filesystem (ds, ls, cs)
enable(name, sync_commit, manifest, ds, ls, cs) ==
    get_module_data(name) \o
    (IF name \notin Modules THEN <<>>
     ELSE
        (IF PrefixOf(name) \notin ds
            THEN <<Fs("mkdirs", name, <<PrefixOf(name)>>)>> ELSE <<>>) \o
        (IF path_exists_link(name, ls, cs) THEN <<Raise("AlreadyEnabled", name)>>
         ELSE
            (IF name \notin cs
                THEN <<Git("clone", name, ModulesDir, NoValue, ModuleBranch(name))>>
                ELSE <<>>) \o
            <<[Fs("symlink", name, ModuleDir(name)) EXCEPT
                  !.err = IF name \in ls THEN "FileExistsError" ELSE ""]>> \o
            (IF sync_commit THEN sync_module(name, manifest) ELSE <<>>)))

\* mutant: the link is removed without looking whether it exists
disable_unguarded(name, ls, cs) ==
    get_module_data(name) \o
    (IF name \notin Modules THEN <<>>
     ELSE <<Fs("unlink", name, ModuleDir(name))>>)

\* mutant: the links of all enabled modules are removed
disable_every_link(name, ls, cs) ==
    get_module_data(name) \o
    (IF name \notin Modules THEN <<>>
     ELSE IF ~path_exists_link(name, ls, cs) THEN <<Raise("NotEnabled", name)>>
     ELSE LET mods == get_all_modules(TRUE, ls, cs) IN
          [i \in 1..Len(mods) |-> Fs("unlink", mods[i], ModuleDir(mods[i]))])

\* disable: remove the symlink of an enabled module
disable(name, ls, cs) ==
    get_module_data(name) \o
    (IF name \notin Modules THEN <<>>
     ELSE IF ~path_exists_link(name, ls, cs) THEN <<Raise("NotEnabled", name)>>
     ELSE <<Fs("unlink", name, ModuleDir(name))>>)

\* the filesystem after the calls of a log
DoneIn(log, cmd) == {log[i].repo : i \in {j \in 1..Len(log) : log[j].cmd = cmd /\ log[j].ok}}

DirsAfter(log, ds) ==
    ds \cup {log[i].dir[1] : i \in {j \in 1..Len(log) : log[j].cmd = "mkdirs" /\ log[j].ok}}
ClonesAfter(log, cs) == cs \cup DoneIn(log, "clone")
LinksAfter(log, ls)  == (ls \cup DoneIn(log, "symlink")) \ DoneIn(log, "unlink")

\* GitService.perform_git_action: only checkout takes the branch name
perform_git_action(operation, revision, branch, repo, dir) ==
    Git(operation, repo, dir, revision,
        IF operation = "checkout" THEN branch ELSE NoValue)

\* mutant: the git call is made outside the try/except
attempt_git_operation_uncaught(operation, revision, branch, repo, dir) ==
    perform_git_action(operation, revision, branch, repo, dir)

\* attempt_git_operation: a failure of the git call is caught and reported
attempt_git_operation(operation, revision, branch, repo, dir) ==
    [perform_git_action(operation, revision, branch, repo, dir) EXCEPT !.caught = TRUE]

ErrMsg(operation, revision) == <<"Encountered error performing", operation, revision>>

\* git_operate_modules: the same action on every enabled module
RECURSIVE git_operate_modules_loop(_, _, _, _)
git_operate_modules_loop(operation, branch, mods, manifest) ==
    IF mods = <<>> THEN <<>>
    ELSE LET m == Head(mods) IN
         IF m \notin DOMAIN manifest.mods
         THEN <<Raise("ModuleNotInManifest", m)>>
         ELSE <<attempt_git_operation(operation, manifest.mods[m], branch, m, ModuleDir(m))>>
              \o git_operate_modules_loop(operation, branch, Tail(mods), manifest)

git_operate_modules(operation, branch, enabled_modules, manifest) ==
    get_evg_manifest \o
    (IF ~manifest.has THEN <<Raise("ManifestMissing", BASE_REPO)>>
     ELSE git_operate_modules_loop(operation, branch, enabled_modules, manifest))

\* mutant: the manifest is looked up before the base repo is operated
git_operate_base_manifest_first(operation, revision, branch, manifest, ls, cs) ==
    LET mods == get_all_modules(TRUE, ls, cs) IN
    get_evg_manifest \o
    <<attempt_git_operation(operation, revision, branch, BASE_REPO, NoDir)>> \o
    <<Evg("get_module_map", NoValue)>> \o
    (IF ~manifest.has THEN <<Raise("ManifestMissing", BASE_REPO)>>
     ELSE git_operate_modules_loop(operation, branch, mods, manifest))

\* mutant: the modules are operated with the caller's revision
git_operate_base_literal(operation, revision, branch, manifest, ls, cs) ==
    LET mods == get_all_modules(TRUE, ls, cs) IN
    <<attempt_git_operation(operation, revision, branch, BASE_REPO, NoDir)>> \o
    <<Evg("get_module_map", NoValue)>> \o
    get_evg_manifest \o
    [i \in 1..Len(mods) |->
        attempt_git_operation(operation, revision, branch, mods[i], ModuleDir(mods[i]))]

\* git_operate_base: the action on the base repo, then on the modules
git_operate_base(operation, revision, branch, manifest, ls, cs) ==
    <<attempt_git_operation(operation, revision, branch, BASE_REPO, NoDir)>> \o
    <<Evg("get_module_map", NoValue)>> \o
    git_operate_modules(operation, branch, get_all_modules(TRUE, ls, cs), manifest)

\* error_encountered: the map the two functions above fill
error_encountered(operation, revision, enabled_modules, manifest, caughtFails) ==
    LET failedMods == {m \in Range(enabled_modules) : m \in caughtFails}
        keys == failedMods \cup
                (IF BASE_REPO \in caughtFails THEN {BASE_ERROR_KEY} ELSE {})
    IN  [k \in keys |->
            IF k = BASE_ERROR_KEY THEN ErrMsg(operation, revision)
            ELSE ErrMsg(operation, manifest.mods[k])]

\* sync of one module with an update strategy (checkout, rebase or merge)
update_module(m, manifest, strategy) ==
    LET steps == sync_module(m, manifest) IN
    [i \in 1..Len(steps) |->
        IF steps[i].cmd = "checkout" THEN [steps[i] EXCEPT !.cmd = strategy]
        ELSE steps[i]]

\* sync_all_modules: sync every (enabled) module, one after the other
sync_all_modules(enabled, strategy, manifest, ls, cs) ==
    LET mods == get_all_modules(enabled, ls, cs) IN
    IssuedBy("sync_all_modules",
        <<Evg("get_module_map", NoValue)>> \o
        Flatten([i \in 1..Len(mods) |-> update_module(mods[i], manifest, strategy)]))

\* the dictionary sync_all_modules returns: module name -> revision
sync_all_modules_result(enabled, manifest, ls, cs) ==
    [m \in Range(get_all_modules(enabled, ls, cs)) |-> manifest.mods[m]]

(***************************************************************************)
(* Repository                                                              *)
(***************************************************************************)
base_repo(branch) == [name |-> BASE_REPO, directory |-> NoDir, target_branch |-> branch]

\* mutant: the module's directory lacks the prefix
from_module_unprefixed(m) ==
    [name |-> m, directory |-> <<m>>, target_branch |-> ModuleBranch(m)]

from_module(m) ==
    [name |-> m, directory |-> ModuleDir(m), target_branch |-> ModuleBranch(m)]

\* collect_repositories: the enabled modules, then the base repo
collect_repositories(ls, cs) ==
    LET mods == get_all_modules(TRUE, ls, cs) IN
    [i \in 1..Len(mods) |-> from_module(mods[i])] \o <<base_repo(ProjectBranch)>>

collect_repositories_calls ==
    IssuedBy("collect_repositories",
        <<Evg("get_module_map", NoValue), Evg("get_project_branch", NoValue)>>)

RepoNames(repos) == [i \in 1..Len(repos) |-> repos[i].name]

(***************************************************************************)
(* GitBranchService                                                        *)
(***************************************************************************)
\* mutant: the branch creation is wrapped like attempt_git_operation
create_branch_tolerant(branch_name, branch_base, manifest, ls, cs) ==
    LET repos == collect_repositories(ls, cs) IN
    <<Git("checkout", BASE_REPO, NoDir, branch_base, NoValue)>> \o
    sync_all_modules(TRUE, "checkout", manifest, ls, cs) \o
    collect_repositories_calls \o
    [i \in 1..Len(repos) |->
        [Git("checkout", repos[i].name, repos[i].directory, NoValue, branch_name)
            EXCEPT !.caught = TRUE]]

\* mutant: the branch is created before the modules are synced
create_branch_unsynced(branch_name, branch_base, manifest, ls, cs) ==
    LET repos == collect_repositories(ls, cs) IN
    <<Git("checkout", BASE_REPO, NoDir, branch_base, NoValue)>> \o
    collect_repositories_calls \o
    [i \in 1..Len(repos) |->
        Git("checkout", repos[i].name, repos[i].directory, NoValue, branch_name)] \o
    sync_all_modules(TRUE, "checkout", manifest, ls, cs)

\* create_branch: checkout the base, sync the modules, create the branch
create_branch(branch_name, branch_base, manifest, ls, cs) ==
    LET repos == collect_repositories(ls, cs) IN
    <<Git("checkout", BASE_REPO, NoDir, branch_base, NoValue)>> \o
    sync_all_modules(TRUE, "checkout", manifest, ls, cs) \o
    collect_repositories_calls \o
    [i \in 1..Len(repos) |->
        Git("checkout", repos[i].name, repos[i].directory, NoValue, branch_name)]

\* what git prints for a command in a repository
GitOutput(cmd, repo) == <<"output of git", cmd, "in", repo>>

\* branch_list: git branch in every collected repository
branch_list(ls, cs) ==
    LET repos == collect_repositories(ls, cs) IN
    collect_repositories_calls \o
    [i \in 1..Len(repos) |->
        Git("branch", repos[i].name, repos[i].directory, NoValue, NoValue)]

\* mutant: the branch is checked out in the base repo only
switch_branch_base_only(branch_name, ls, cs) ==
    collect_repositories_calls \o
    <<Git("checkout", BASE_REPO, NoDir, branch_name, NoValue)>>

\* switch_branch: git checkout of the branch in every collected repository
switch_branch(branch_name, ls, cs) ==
    LET repos == collect_repositories(ls, cs) IN
    collect_repositories_calls \o
    [i \in 1..Len(repos) |->
        Git("checkout", repos[i].name, repos[i].directory, branch_name, NoValue)]

\* delete_branch: git branch -D of the branch in every collected repository
delete_branch(branch_name, ls, cs) ==
    LET repos == collect_repositories(ls, cs) IN
    collect_repositories_calls \o
    [i \in 1..Len(repos) |->
        Git("branch", repos[i].name, repos[i].directory, "-D", branch_name)]

\* GitCommitService.status: git status in every collected repository
git_status(ls, cs) ==
    LET repos == collect_repositories(ls, cs) IN
    collect_repositories_calls \o
    [i \in 1..Len(repos) |->
        Git("status", repos[i].name, repos[i].directory, NoValue, NoValue)]

\* the GitCommandOutput list branch_list and status build
CommandOutputs(cmd, ls, cs) ==
    LET repos == collect_repositories(ls, cs) IN
    [i \in 1..Len(repos) |->
        [module_name |-> repos[i].name, output |-> GitOutput(cmd, repos[i].name)]]

UpdateStrategy(rebase) == IF rebase THEN "rebase" ELSE "merge"

\* mutant: the modules are synced before the base repo is updated
update_branch_sync_first(branch, rebase, manifest, ls, cs) ==
    LET repos == collect_repositories(ls, cs) IN
    collect_repositories_calls \o
    [i \in 1..Len(repos) |->
        Git("fetch", repos[i].name, repos[i].directory, NoValue, NoValue)] \o
    sync_all_modules(TRUE, UpdateStrategy(rebase), manifest, ls, cs) \o
    <<Git(UpdateStrategy(rebase), BASE_REPO, NoDir, branch, NoValue)>>

\* update_branch: fetch every repo, update the base, then sync the modules
update_branch(branch, rebase, manifest, ls, cs) ==
    LET repos == collect_repositories(ls, cs) IN
    collect_repositories_calls \o
    [i \in 1..Len(repos) |->
        Git("fetch", repos[i].name, repos[i].directory, NoValue, NoValue)] \o
    <<Git(UpdateStrategy(rebase), BASE_REPO, NoDir, branch, NoValue)>> \o
    sync_all_modules(TRUE, UpdateStrategy(rebase), manifest, ls, cs)

\* mutant: the modules are merged whatever the base repo did
pull_sync_merge(rebase, manifest, ls, cs) ==
    <<Git("pull", BASE_REPO, NoDir, NoValue, IF rebase THEN "--rebase" ELSE NoValue)>> \o
    sync_all_modules(TRUE, "merge", manifest, ls, cs)

\* pull: git pull [--rebase] in the base repo, then sync the modules
pull(rebase, manifest, ls, cs) ==
    <<Git("pull", BASE_REPO, NoDir, NoValue, IF rebase THEN "--rebase" ELSE NoValue)>> \o
    sync_all_modules(TRUE, UpdateStrategy(rebase), manifest, ls, cs)

\* the list update_branch and pull build from the dictionary of the sync
GitCommandOutputs(mods, result) ==
    [i \in 1..Len(mods) |-> [module_name |-> mods[i], output |-> result[mods[i]]]]

\* git_commit_modules: commit --all in the base repo and every enabled module
git_commit_modules(ls, cs) ==
    LET mods == get_all_modules(TRUE, ls, cs) IN
    <<Git("commit_all", BASE_REPO, NoDir, NoValue, NoValue)>> \o
    <<Evg("get_module_map", NoValue)>> \o
    Flatten([i \in 1..Len(mods) |->
        get_module_data(mods[i]) \o
        <<Git("commit_all", mods[i], ModuleDir(mods[i]), NoValue, NoValue)>>])

(***************************************************************************)
(* GitCommitService                                                        *)
(***************************************************************************)
\* lines of `git status --short`: two status columns, a blank, the file name
StagedLine    == <<"M", " ", " ", "f", "1">>
UnstagedLine  == <<" ", "M", " ", "f", "2">>
UntrackedLine == <<"?", "?", " ", "f", "3">>

Statuses ==
    {<<>>, <<StagedLine>>, <<UnstagedLine>>, <<UntrackedLine>>,
     <<UnstagedLine, UntrackedLine>>}

\* str.startswith
startswith(line, prefix) ==
    Len(line) >= Len(prefix) /\ SubSeq(line, 1, Len(prefix)) = prefix

\* mutant: unstaged changes count whether or not --add is given
has_commitable_change_unstaged(add, status_lines) ==
    LET Tracked(line) == ~startswith(line, <<"?", "?">>)
    IN  Len(SelectSeq(status_lines, Tracked)) > 0

\* has_commitable_change on the status lines of a repository
has_commitable_change(add, status_lines) ==
    LET Tracked(line) == ~startswith(line, <<"?", "?">>)
        Staged(line)  == ~startswith(line, <<" ">>)
        items == SelectSeq(status_lines, Tracked)
    IN  IF add THEN Len(items) > 0
        ELSE Len(SelectSeq(items, Staged)) > 0

\* repos_with_changes of GitCommitService.commit
repos_with_changes(add, repos, status) ==
    LET Changed(repo) == has_commitable_change(add, status[repo.name])
    IN  SelectSeq(repos, Changed)

\* mutant: every repository is committed, changed or not
commit_unfiltered(add, status, ls, cs) ==
    LET repos == collect_repositories(ls, cs) IN
    collect_repositories_calls \o
    [i \in 1..Len(repos) |->
        Git("status", repos[i].name, repos[i].directory, "--short", NoValue)] \o
    [i \in 1..Len(repos) |->
        Git("commit", repos[i].name, repos[i].directory, NoValue, NoValue)]

\* mutant: the base repo is committed whether it has a change or not
commit_base_always(add, status, ls, cs) ==
    LET repos == collect_repositories(ls, cs)
        Changed(repo) == \/ repo.name = BASE_REPO
                         \/ has_commitable_change(add, status[repo.name])
        changed == SelectSeq(repos, Changed)
    IN  collect_repositories_calls \o
        [i \in 1..Len(repos) |->
            Git("status", repos[i].name, repos[i].directory, "--short", NoValue)] \o
        [i \in 1..Len(changed) |->
            Git("commit", changed[i].name, changed[i].directory, NoValue, NoValue)]

\* commit: commit in every repository that has a committable change
commit(add, status, ls, cs) ==
    LET repos   == collect_repositories(ls, cs)
        changed == repos_with_changes(add, repos, status)
    IN  collect_repositories_calls \o
        [i \in 1..Len(repos) |->
            Git("status", repos[i].name, repos[i].directory, "--short", NoValue)] \o
        [i \in 1..Len(changed) |->
            Git("commit", changed[i].name, changed[i].directory, NoValue, NoValue)]

\* a staged rename in the short format: "R  f1 -> f2"
RenamedLine == <<"R", " ", " ", "f", "1", " ", "-", ">", " ", "f", "2">>

\* file names as `git ls-files` prints them, one per line
Files == {<<"f", "1">>, <<"f", "2">>, <<"f", "3">>}

\* what one repository answers to status --short and to ls-files
TouchCases ==
    {[status |-> <<>>,                           ls_files |-> <<<<"f", "1">>>>],
     [status |-> <<StagedLine, UnstagedLine>>,   ls_files |-> <<<<"f", "1">>, <<"f", "3">>>>],
     [status |-> <<UntrackedLine, UnstagedLine>>,
      ls_files |-> <<<<"f", "1">>, <<"f", "2">>, <<"f", "3">>>>],
     [status |-> <<RenamedLine>>,                ls_files |-> <<<<"f", "2">>>>],
     [status |-> <<UnstagedLine>>,               ls_files |-> <<>>]}

\* str.strip for blanks
RECURSIVE strip(_)
strip(str) ==
    IF str = <<>> THEN <<>>
    ELSE IF Head(str) = " " THEN strip(Tail(str))
    ELSE IF str[Len(str)] = " " THEN strip(SubSeq(str, 1, Len(str) - 1))
    ELSE str

\* get_touched_files: tf[2:].strip() of every status line
get_touched_files(status_lines) ==
    [i \in 1..Len(status_lines) |->
        strip(SubSeq(status_lines[i], 3, Len(status_lines[i])))]

\* files_to_track: the set of the files ls-files lists for the pathspecs
files_to_track(ls_files) == Range(ls_files)

\* mutant: every touched file is kept, listed or not
files_to_add_unlisted(status_lines, ls_files) == get_touched_files(status_lines)

\* files_to_add / files_to_restore: the touched files that are listed
files_to_add(status_lines, ls_files) ==
    LET Listed(tf) == tf \in files_to_track(ls_files)
    IN  SelectSeq(get_touched_files(status_lines), Listed)

\* add_to_repo: list, read the status, add the touched files that are listed
add_to_repo(repo, answer) ==
    <<Git("ls_files", repo.name, repo.directory, NoValue, NoValue),
      Git("status", repo.name, repo.directory, "--short", NoValue),
      [Git("add", repo.name, repo.directory, NoValue, NoValue)
          EXCEPT !.data = files_to_add(answer.status, answer.ls_files)]>>

\* restore_from_repo: the same selection, passed to git restore
restore_from_repo(staged, repo, answer) ==
    <<Git("ls_files", repo.name, repo.directory, NoValue, NoValue),
      Git("status", repo.name, repo.directory, "--short", NoValue),
      [Git("restore", repo.name, repo.directory,
           IF staged THEN "--staged" ELSE NoValue, NoValue)
          EXCEPT !.data = files_to_add(answer.status, answer.ls_files)]>>

\* GitCommitService.add: add_to_repo in every collected repository
add_pathspecs(answers, ls, cs) ==
    LET repos == collect_repositories(ls, cs) IN
    collect_repositories_calls \o
    Flatten([i \in 1..Len(repos) |-> add_to_repo(repos[i], answers[repos[i].name])])

\* GitCommitService.restore: restore_from_repo in every collected repository
restore_pathspecs(staged, answers, ls, cs) ==
    LET repos == collect_repositories(ls, cs) IN
    collect_repositories_calls \o
    Flatten([i \in 1..Len(repos) |->
        restore_from_repo(staged, repos[i], answers[repos[i].name])])

\* the GitCommandOutput list of add and restore: the files, by repository
touched_output(answers, ls, cs) ==
    LET repos == collect_repositories(ls, cs) IN
    [i \in 1..Len(repos) |->
        [module_name |-> repos[i].name,
         output |-> files_to_add(answers[repos[i].name].status,
                                 answers[repos[i].name].ls_files)]]

(***************************************************************************)
(* PullRequestService                                                      *)
(***************************************************************************)
PROTECTED_BRANCHES == {"main", "master"}
FeatureBranch == "feature"
NoBody == "''"
DEFAULT_REMOTE == "origin"

\* the remotes determine_remote may resolve to
RemoteUrls == {DEFAULT_REMOTE, "fork_url"}

\* the url `gh pr create` prints for the pull request of a repository
PrUrl(repo) == "https://github/" \o repo \o "/pull"

PullRequest(name, link) == [name |-> name, link |-> link]

\* PullRequest.pr_comment: the markdown entry "* [name](link)"
pr_comment(pr) == <<"* [", pr.name, "](", pr.link, ")">>

\* mutant: every repository counts as changed
repo_has_changes_always(repo, changes) == TRUE

\* repo_has_changes: the output of git diff target_branch..HEAD is not empty
repo_has_changes(repo, changes) == changes[repo.name]

\* the git diff call repo_has_changes makes
check_changes(repo) ==
    Git("diff", repo.name, repo.directory, repo.target_branch, "HEAD")

\* determine_remote: resolve the remote to push the repository to
determine_remote(remote, repo) ==
    Git("determine_remote", repo.name, repo.directory, remote, NoValue)

\* mutant: the current branch is pushed whatever its name
push_branch_to_remote_unguarded(remote, repo, current_branch) ==
    IssuedBy("push_branch_to_remote",
        <<Git("current_branch", repo.name, repo.directory, NoValue, NoValue),
          Git("push", repo.name, repo.directory, remote, current_branch)>>)

\* push_branch_to_remote: refuse a protected branch, push the current one
push_branch_to_remote(remote, repo, current_branch) ==
    IssuedBy("push_branch_to_remote",
        <<Git("current_branch", repo.name, repo.directory, NoValue, NoValue)>> \o
        (IF current_branch \in PROTECTED_BRANCHES
         THEN <<Raise("UsageError", repo.name)>>
         ELSE <<Git("push", repo.name, repo.directory, remote, current_branch)>>))

\* combine_pr_arugments for one repository: its calls, then its arguments
combine_pr_arugments_calls(title, repo) ==
    (IF title = NoValue
     THEN <<Git("commit_message", repo.name, repo.directory, NoValue, NoValue)>>
     ELSE <<>>) \o
    <<Git("current_branch", repo.name, repo.directory, NoValue, NoValue)>>

\* GitProxy.commit_message: the message of the latest commit of a repository
commit_message(repo) == "last commit of " \o repo.name

PullRequestOption(title, body, branch, remote_url) ==
    [title |-> title, body |-> body, branch |-> branch, remote_url |-> remote_url]

\* mutant: the head branch and the target repository are never passed
option_list_short(option) ==
    <<"--title", option.title, "--body", option.body>>

\* PullRequestOption.option_list: the arguments of `gh pr create`
option_list(option) ==
    IF option.remote_url = DEFAULT_REMOTE
    THEN <<"--title", option.title, "--body", option.body>>
    ELSE <<"--title", option.title, "--body", option.body,
           "--head", option.branch, "--repo", option.remote_url>>

combine_pr_arugments(title, body, remote_url, repo, current_branch) ==
    option_list(PullRequestOption(
        IF title # NoValue THEN title ELSE commit_message(repo),
        IF body # NoValue THEN body ELSE NoBody,
        current_branch,
        remote_url))

\* create_prs: the records of the created pull requests, by repository
create_prs(changed_repos) ==
    [i \in 1..Len(changed_repos) |->
        PullRequest(changed_repos[i].name, PrUrl(changed_repos[i].name))]

\* mutant: the comment lists every pull request, the commented one too
create_comment_unfiltered(pr_list, name) ==
    [i \in 1..Len(pr_list) |-> pr_comment(pr_list[i])]

\* create_comment: the entries of the pull requests of the other repositories
create_comment(pr_list, name) ==
    LET Other(pr) == pr.name # name
        others == SelectSeq(pr_list, Other)
    IN  [i \in 1..Len(others) |-> pr_comment(others[i])]

\* annotate_prs: comment on every pull request if there is more than one
annotate_prs(changed_repos, pr_links) ==
    IF Len(changed_repos) > 1
    THEN [i \in 1..Len(changed_repos) |->
            Gh("pr_comment", changed_repos[i].name, changed_repos[i].directory,
               pr_links[i].link, create_comment(pr_links, changed_repos[i].name))]
    ELSE <<>>

\* changed_repos of create_pull_request
changed_repos_of(changes, ls, cs) ==
    LET Changed(repo) == repo_has_changes(repo, changes)
    IN  SelectSeq(collect_repositories(ls, cs), Changed)

\* the names `git rev-parse --abbrev-ref HEAD` may print
BranchNames == {FeatureBranch, "main", "master"}

CurrentBranch(repo, branches) == branches[repo]

\* mutant: each changed repository is resolved, pushed and given its pull
\* request before the next one is looked at
create_pull_request_per_repo(title, body, remote, remotes, changes, branches, ls, cs) ==
    LET repos   == collect_repositories(ls, cs)
        changed == changed_repos_of(changes, ls, cs)
        Branch(i) == CurrentBranch(changed[i].name, branches)
    IN  collect_repositories_calls \o
        [i \in 1..Len(repos) |-> check_changes(repos[i])] \o
        Flatten([i \in 1..Len(changed) |->
            <<determine_remote(remote, changed[i])>> \o
            push_branch_to_remote(remotes[changed[i].name], changed[i], Branch(i)) \o
            combine_pr_arugments_calls(title, changed[i]) \o
            <<Gh("pr_create", changed[i].name, changed[i].directory,
                 PrUrl(changed[i].name),
                 combine_pr_arugments(title, body, remotes[changed[i].name],
                                      changed[i], Branch(i)))>>]) \o
        annotate_prs(changed, create_prs(changed))

\* create_pull_request: push and open a pull request in every changed repo
create_pull_request(title, body, remote, remotes, changes, branches, ls, cs) ==
    LET repos   == collect_repositories(ls, cs)
        changed == changed_repos_of(changes, ls, cs)
        Branch(i) == CurrentBranch(changed[i].name, branches)
    IN  collect_repositories_calls \o
        [i \in 1..Len(repos) |-> check_changes(repos[i])] \o
        [i \in 1..Len(changed) |-> determine_remote(remote, changed[i])] \o
        Flatten([i \in 1..Len(changed) |->
            push_branch_to_remote(remotes[changed[i].name], changed[i], Branch(i))]) \o
        Flatten([i \in 1..Len(changed) |->
            combine_pr_arugments_calls(title, changed[i])]) \o
        [i \in 1..Len(changed) |->
            Gh("pr_create", changed[i].name, changed[i].directory,
               PrUrl(changed[i].name),
               combine_pr_arugments(title, body, remotes[changed[i].name],
                                    changed[i], Branch(i)))] \o
        annotate_prs(changed, create_prs(changed))

(***************************************************************************)
(* ModulesService pull requests (git_pull_request)                         *)
(***************************************************************************)
\* ModulesService.push_branch_to_remote: refuse a protected branch, push
\* the current branch unless the remote already has it
modules_push_branch_to_remote(name, dir, current_branch, on_remote) ==
    IssuedBy("push_branch_to_remote",
        <<Git("current_branch", name, dir, NoValue, NoValue)>> \o
        (IF current_branch \in PROTECTED_BRANCHES
         THEN <<Raise("ValueError", name)>>
         ELSE <<Git("current_branch_exist_on_remote", name, dir, NoValue, current_branch)>> \o
              (IF on_remote THEN <<>>
               ELSE <<Git("push", name, dir, "origin", current_branch)>>)))

\* base_pull_request: push the base repo and open its pull request
base_pull_request(branches, onRemote) ==
    modules_push_branch_to_remote(BASE_REPO, NoDir, branches[BASE_REPO],
                                  BASE_REPO \in onRemote) \o
    <<Gh("pr_create", BASE_REPO, NoDir, PrUrl(BASE_REPO), <<>>)>>

\* changed_modules of module_pull_request
changed_modules_of(changes, ls, cs) ==
    LET Changed(m) == changes[m]
    IN  SelectSeq(get_all_modules(TRUE, ls, cs), Changed)

\* module_pull_request: push every changed module, then open their pull requests
module_pull_request(changes, branches, onRemote, ls, cs) ==
    LET mods    == get_all_modules(TRUE, ls, cs)
        changed == changed_modules_of(changes, ls, cs)
    IN  <<Evg("get_module_map", NoValue)>> \o
        Flatten([i \in 1..Len(mods) |->
            get_module_data(mods[i]) \o
            <<Git("get_mergebase_branch_name", mods[i], ModuleDir(mods[i]), NoValue, NoValue),
              Git("diff", mods[i], ModuleDir(mods[i]), "origin_head", "HEAD")>> \o
            (IF changes[mods[i]]
             THEN modules_push_branch_to_remote(mods[i], ModuleDir(mods[i]),
                      branches[mods[i]], mods[i] \in onRemote)
             ELSE <<>>)]) \o
        Flatten([i \in 1..Len(changed) |->
            get_module_data(changed[i]) \o
            <<Gh("pr_create", changed[i], ModuleDir(changed[i]), PrUrl(changed[i]), <<>>)>>])

\* comment_dict of git_pull_request: the base repo, then the changed modules
comment_dict(changes, ls, cs) ==
    <<PullRequest(BASE_REPO, PrUrl(BASE_REPO))>> \o
    create_prs([i \in 1..Len(changed_modules_of(changes, ls, cs)) |->
                   from_module(changed_modules_of(changes, ls, cs)[i])])

\* combine_pr_comments: for every pull request the entries of the others
combine_pr_comments(comments, name) ==
    LET Other(pr) == pr.name # name
        others == SelectSeq(comments, Other)
    IN  [i \in 1..Len(others) |-> <<"* ", others[i].name, " pr: ", others[i].link>>]

\* update_pr_links: comment on every pull request
update_pr_links(comments) ==
    Flatten([i \in 1..Len(comments) |->
        (IF comments[i].name # BASE_REPO THEN get_module_data(comments[i].name) ELSE <<>>) \o
        <<Gh("pr_comment", comments[i].name,
             IF comments[i].name = BASE_REPO THEN NoDir ELSE ModuleDir(comments[i].name),
             comments[i].link, combine_pr_comments(comments, comments[i].name))>>])

\* git_pull_request: pull requests for the base repo and the changed modules
git_pull_request(changes, branches, onRemote, ls, cs) ==
    base_pull_request(branches, onRemote) \o
    module_pull_request(changes, branches, onRemote, ls, cs) \o
    update_pr_links(comment_dict(changes, ls, cs))

(***************************************************************************)
(* ValidationService                                                       *)
(***************************************************************************)
\* validate_evergreen_command: the evergreen client must be on the PATH
validate_evergreen_command(on_path) ==
    <<Fs("which", BASE_REPO, <<"evergreen">>)>> \o
    (IF ~on_path THEN <<Raise("UsageError", BASE_REPO)>> ELSE <<>>)

\* validate_gh_command: the gh client must be on the PATH
validate_gh_command(on_path) ==
    <<Fs("which", BASE_REPO, <<"gh">>)>> \o
    (IF ~on_path THEN <<Raise("UsageError", BASE_REPO)>> ELSE <<>>)

\* _check_github_auth_status: returns the command `gh auth status` bound to
\* its arguments, without running it, whatever the login state
check_github_auth_status(authenticated) ==
    [command |-> <<"gh", "auth", "status">>, executed |-> FALSE]

\* the truth value of a command object: it defines neither __bool__ nor
\* __len__, so it is true
truth_value(result) == TRUE

\* validate_github_authentication: refuse when the result is false
validate_github_authentication(authenticated) ==
    IF ~truth_value(check_github_auth_status(authenticated))
    THEN <<Raise("UsageError", BASE_REPO)>>
    ELSE <<>>

\* validate_github: gh is installed, then gh is authenticated
validate_github(on_path, authenticated) ==
    validate_gh_command(on_path) \o
    (IF ~on_path THEN <<>> ELSE validate_github_authentication(authenticated))

(***************************************************************************)
(* EvgCliService / PatchService                                            *)
(***************************************************************************)
PatchIds   == {"patch_1", "patch_2"}
BuildUrl(patch_id) == "https://evergreen/" \o patch_id
OutputLine(key, value) == [key |-> key, value |-> value]

\* what `evergreen patch` / `evergreen commit-queue merge` may print
PatchOutputs ==
    {<<OutputLine("ID", p), OutputLine("Build", BuildUrl(p))>> : p \in PatchIds}
        \cup {<<OutputLine("Build", BuildUrl("patch_1"))>>,
              <<OutputLine("ID", "patch_1")>>}

\* the extra arguments given on the command line
ExtraArgs == {<<>>, <<"-u">>, <<"--large", "--browse">>}

\* PATCH_ID_RE.search / BUILD_URL_RE.search: the first line with the key
search(key, cmd_output) ==
    LET HasKey(line) == line.key = key
    IN  SelectSeq(cmd_output, HasKey)

PatchInfo(cmd_output) ==
    [patch_id  |-> search("ID", cmd_output)[1].value,
     patch_url |-> search("Build", cmd_output)[1].value]

recognized(cmd_output) ==
    search("ID", cmd_output) # <<>> /\ search("Build", cmd_output) # <<>>

\* EvgCliService.create_patch: run `evergreen patch`, read the id and the url
evg_cli_create_patch(extra_args, cmd_output) ==
    <<EvgCli("patch", BASE_REPO, NoDir, NoValue,
             <<"--project", "--skip_confirm">> \o extra_args)>> \o
    (IF recognized(cmd_output) THEN <<>>
     ELSE <<Raise("OutputUnrecognized", BASE_REPO)>>)

\* EvgCliService.add_module_to_patch: only three of the extra arguments are
\* passed on
add_module_to_patch(patch_id, module, directory, extra_args) ==
    EvgCli("patch-set-module", module, directory, patch_id,
           <<"--skip_confirm">> \o
           (IF "-u" \in Range(extra_args) \/ "--uncommitted" \in Range(extra_args)
                THEN <<"--uncommitted">> ELSE <<>>) \o
           (IF "--large" \in Range(extra_args) THEN <<"--large">> ELSE <<>>) \o
           (IF "--preserve-commits" \in Range(extra_args)
                THEN <<"--preserve-commits">> ELSE <<>>))

\* EvgCliService.create_cq_patch: `evergreen commit-queue merge --pause`
evg_cli_create_cq_patch(extra_args, cmd_output) ==
    <<EvgCli("commit-queue merge", BASE_REPO, NoDir, NoValue,
             <<"--project", "--pause">> \o extra_args)>> \o
    (IF recognized(cmd_output) THEN <<>>
     ELSE <<Raise("OutputUnrecognized", BASE_REPO)>>)

\* EvgCliService.add_module_to_cq_patch
add_module_to_cq_patch(patch_id, module, directory, extra_args) ==
    EvgCli("commit-queue set-module", module, directory, patch_id,
           <<"--skip_confirm">> \o extra_args)

\* EvgCliService.finalize_cq_patch: `evergreen commit-queue merge --resume`
finalize_cq_patch(patch_id) ==
    EvgCli("commit-queue merge --resume", BASE_REPO, NoDir, patch_id, <<>>)

\* mutant: every declared module is attached to the patch
create_patch_all_modules(extra_args, cmd_output, ls, cs) ==
    <<Evg("get_module_map", NoValue)>> \o
    evg_cli_create_patch(extra_args, cmd_output) \o
    (IF ~recognized(cmd_output) THEN <<>>
     ELSE [i \in 1..Len(ModuleOrder) |->
            add_module_to_patch(PatchInfo(cmd_output).patch_id, ModuleOrder[i],
                                ModuleDir(ModuleOrder[i]), extra_args)])

\* PatchService.create_patch: create the patch, attach every module whose
\* link path exists
create_patch(extra_args, cmd_output, ls, cs) ==
    LET mods == get_all_modules(TRUE, ls, cs)
    IN  <<Evg("get_module_map", NoValue)>> \o
        evg_cli_create_patch(extra_args, cmd_output) \o
        (IF ~recognized(cmd_output) THEN <<>>
         ELSE [i \in 1..Len(mods) |->
                add_module_to_patch(PatchInfo(cmd_output).patch_id, mods[i],
                                    ModuleDir(mods[i]), extra_args)])

\* mutant: the entry is finalized before the modules are attached
create_cq_patch_finalize_first(extra_args, cmd_output, ls, cs) ==
    LET mods == get_all_modules(TRUE, ls, cs)
    IN  <<Evg("get_module_map", NoValue)>> \o
        evg_cli_create_cq_patch(extra_args, cmd_output) \o
        (IF ~recognized(cmd_output) THEN <<>>
         ELSE <<finalize_cq_patch(PatchInfo(cmd_output).patch_id)>> \o
              [i \in 1..Len(mods) |->
                add_module_to_cq_patch(PatchInfo(cmd_output).patch_id, mods[i],
                                       ModuleDir(mods[i]), extra_args)])

\* PatchService.create_cq_patch: create the paused entry, attach every
\* module whose link path exists, finalize
create_cq_patch(extra_args, cmd_output, ls, cs) ==
    LET mods == get_all_modules(TRUE, ls, cs)
    IN  <<Evg("get_module_map", NoValue)>> \o
        evg_cli_create_cq_patch(extra_args, cmd_output) \o
        (IF ~recognized(cmd_output) THEN <<>>
         ELSE [i \in 1..Len(mods) |->
                add_module_to_cq_patch(PatchInfo(cmd_output).patch_id, mods[i],
                                       ModuleDir(mods[i]), extra_args)] \o
              <<finalize_cq_patch(PatchInfo(cmd_output).patch_id)>>)

\* emm_cli.pull_request: validate, refuse a body without a title, create
pull_request(on_path, authenticated, title, body, remotes, changes, branches, ls, cs) ==
    validate_github(on_path, authenticated) \o
    (IF ~on_path THEN <<>>
     ELSE IF title = NoValue /\ body # NoValue THEN <<Raise("UsageError", BASE_REPO)>>
     ELSE create_pull_request(title, body, DEFAULT_REMOTE, remotes, changes, branches,
                              ls, cs))

\* EmmOrchestrator.display_modules: one line per module, three more with
\* the details
display_modules(modules, details) ==
    Flatten([i \in 1..Len(modules) |->
        <<<<"-", modules[i]>>>> \o
        (IF details
         THEN <<<<"prefix:", PrefixOf(modules[i])>>,
                <<"repo:", modules[i]>>,
                <<"branch:", ModuleBranch(modules[i])>>>>
         ELSE <<>>)])

\* validate_git_command: the git client must be on the PATH
validate_git_command(on_path) ==
    <<Fs("which", BASE_REPO, <<"git">>)>> \o
    (IF ~on_path THEN <<Raise("UsageError", BASE_REPO)>> ELSE <<>>)

\* GitService.__init__ / GitProxy.create: local.cmd.git is looked up when the
\* service is built, an attribute error when the PATH has no git
resolve_git(on_path) ==
    IF ~on_path THEN <<Raise("AttributeError", BASE_REPO)>> ELSE <<>>

(***************************************************************************)
(* The commands of emm_cli.py and git_cli.py that run git: the validation  *)
(* the command makes, the construction of its orchestrator, the call.      *)
(* enable and disable make no validation.                                  *)
(***************************************************************************)
\* the commands that validate: validate_git_command, the orchestrator, the call
validated(git_on_path, call) ==
    validate_git_command(git_on_path) \o resolve_git(git_on_path) \o
    (IF git_on_path THEN call ELSE <<>>)

(***************************************************************************)
(* GitService: the bisect over dates.  A datetime is its number of half    *)
(* seconds since the first day of the month at 00:00:00 (the half of a     *)
(* second is all a halved difference of whole seconds can leave); a date   *)
(* string is the sequence of its dot-separated fields.                     *)
(***************************************************************************)
\* no bisect was started in the working directory: there is no state file
NoFile == [start |-> <<>>, end |-> <<>>]

Year  == 2021
Month == 1
Second == 2
Minute == 60 * Second
Hour   == 60 * Minute
Day    == 24 * Hour

\* datetime.datetime(year, month, day, hour, minute, second)
datetime(year, month, day, hour, minute, second) ==
    (day - 1) * Day + hour * Hour + minute * Minute + second * Second

\* the attributes of a datetime
day_of(t)    == (t \div Day) + 1
hour_of(t)   == (t % Day) \div Hour
minute_of(t) == (t % Hour) \div Minute
second_of(t) == (t % Minute) \div Second

\* datetime_to_string: the date alone at midnight, six fields otherwise; the
\* format has no field for the fraction of a second
datetime_to_string(datetimes) ==
    IF hour_of(datetimes) = 0 /\ minute_of(datetimes) = 0 /\ second_of(datetimes) = 0
    THEN <<Year, Month, day_of(datetimes)>>
    ELSE <<Year, Month, day_of(datetimes), hour_of(datetimes),
           minute_of(datetimes), second_of(datetimes)>>

InvalidDate == "Invalid Date format."

\* string_to_datetime raises for a string that has not six, four or three fields
invalid_date(dates) == Len(dates) \notin {6, 4, 3}

\* string_to_datetime: six, four or three fields
string_to_datetime(dates) ==
    IF Len(dates) = 6
    THEN datetime(dates[1], dates[2], dates[3], dates[4], dates[5], dates[6])
    ELSE IF Len(dates) = 4
    THEN datetime(dates[1], dates[2], dates[3], dates[4], 0, 0)
    ELSE datetime(dates[1], dates[2], dates[3], 0, 0, 0)

NoMoreDates == "No more dates left."

\* mid.replace(minute=0, second=0) when one of them is not 0
replace_minute_second(mid) ==
    IF minute_of(mid) # 0 \/ second_of(mid) # 0
    THEN mid - minute_of(mid) * Minute - second_of(mid) * Second
    ELSE mid

\* mid.replace(hour=0) when the halves are longer than a day and both ends
\* are in the hour after midnight
replace_hour(mid, delta, start, end) ==
    IF delta > Day /\ hour_of(start) = 0 /\ hour_of(end) = 0 /\ hour_of(mid) # 0
    THEN mid - hour_of(mid) * Hour
    ELSE mid

\* mutant: the halves shorter than an hour are not refused
no_more_dates_never(start, end) == FALSE

\* bisect_in_dates raises when half the difference is less than 3600 seconds
no_more_dates(start, end) == (end - start) \div 2 < Hour

\* bisect_in_dates: the middle of two datetimes, cut to the hour or the day
bisect_in_dates(start, end) ==
    LET delta == (end - start) \div 2
    IN  replace_hour(replace_minute_second(start + delta), delta, start, end)

\* write_states / read_state: the file holds the two strings
write_states(states_dict) == Fs("write_states", BASE_REPO, <<"bisect">>)

\* bisect_start: write the state file, then git rev-list --before=date
bisect_start(states_dict, date) ==
    <<write_states(states_dict), Git("rev_list", BASE_REPO, NoDir, date, NoValue)>>

\* the state bisect_mark stores for a mark
marked_state(action, state) ==
    LET mid == bisect_in_dates(string_to_datetime(state.start),
                               string_to_datetime(state.end))
    IN  IF action = "good" THEN [state EXCEPT !.start = datetime_to_string(mid)]
        ELSE [state EXCEPT !.end = datetime_to_string(mid)]

\* bisect_mark: read the state, halve, replace one end, start again
bisect_mark(action, state) ==
    IF state = NoFile THEN <<Raise("FileNotFoundError", BASE_REPO)>>
    ELSE LET start_date == string_to_datetime(state.start)
             end_date   == string_to_datetime(state.end)
         IN  IF no_more_dates(start_date, end_date)
             THEN <<Raise(NoMoreDates, BASE_REPO)>>
             ELSE bisect_start(marked_state(action, state),
                               bisect_in_dates(start_date, end_date))

\* perform_bisect_action
perform_bisect_action(bisect_action, start, end, state) ==
    IF bisect_action = "start"
    THEN IF invalid_date(start) \/ invalid_date(end)
         THEN <<Raise(InvalidDate, BASE_REPO)>>
         ELSE LET start_date == string_to_datetime(start)
                  end_date   == string_to_datetime(end)
              IN  IF no_more_dates(start_date, end_date)
                  THEN <<Raise(NoMoreDates, BASE_REPO)>>
                  ELSE bisect_start([start |-> start, end |-> end],
                                    bisect_in_dates(start_date, end_date))
    ELSE IF bisect_action \in {"good", "bad"}
    THEN bisect_mark(bisect_action, state)
    ELSE <<Raise("Unknown bisect action", BASE_REPO)>>

\* the state file after the steps that ran
BisectAfter(log, written, state) ==
    IF \E i \in 1..Len(log) : log[i].cmd = "write_states" THEN written ELSE state

(***************************************************************************)
(* State machine                                                           *)
(***************************************************************************)
Idle ==
    [op |-> "none", args |-> <<>>, log |-> <<>>, ok |-> TRUE, err |-> "",
     ret |-> <<>>, pre |-> <<>>, warnings |-> <<>>, printed |-> <<>>]

Snapshot == [dirs |-> dirs, links |-> links, clones |-> clones]

\* the warnings attempt_git_operation logs: operation and revision of every
\* git call whose failure it caught
Warnings(log) ==
    LET Caught(s) == s.caught /\ ~s.ok
        failed == SelectSeq(log, Caught)
    IN  [i \in 1..Len(failed) |->
            <<"Error encountered during git operation", failed[i].cmd, "on", failed[i].rev>>]

\* EmmOrchestrator.git_operate_base: the lines printed for the error map the
\* service returns; the orchestrator drops the map and prints nothing
print_error_encountered(errors) == <<>>

Outcome(op, args, r, ret) ==
    [op |-> op, args |-> args, log |-> r.log, ok |-> r.ok, err |-> r.err,
     ret |-> IF r.ok THEN ret ELSE <<>>, pre |-> Snapshot,
     warnings |-> Warnings(r.log), printed |-> <<>>]

Init ==
    /\ dirs = {}
    /\ links = {}
    /\ clones = {}
    /\ last = Idle
    /\ bisect = NoFile

\* emm enable MODULE [--sync-commit/--no-sync-commit]
Enable ==
    /\ last.op = "none"
    /\ \E name \in Modules \cup {UnknownName}, sync_commit \in BOOLEAN,
          manifest \in Manifests :
        LET plan == enable(name, sync_commit, manifest, dirs, links, clones) IN
        \E failAt \in 0..Len(plan), caughtFails \in SUBSET Attempts(plan) :
            LET r == Run(plan, failAt, caughtFails) IN
            /\ ValidFailAt(plan, failAt)
            /\ last' = Outcome("enable",
                           [name |-> name, sync_commit |-> sync_commit,
                            manifest |-> manifest], r, <<>>)
            /\ dirs' = DirsAfter(r.log, dirs)
            /\ clones' = ClonesAfter(r.log, clones)
            /\ links' = LinksAfter(r.log, links)
            /\ UNCHANGED bisect

\* emm disable MODULE
Disable ==
    /\ last.op = "none"
    /\ \E name \in Modules \cup {UnknownName} :
        LET plan == disable(name, links, clones) IN
        \E failAt \in 0..Len(plan), caughtFails \in SUBSET Attempts(plan) :
            LET r == Run(plan, failAt, caughtFails) IN
            /\ ValidFailAt(plan, failAt)
            /\ last' = Outcome("disable", [name |-> name], r, <<>>)
            /\ dirs' = DirsAfter(r.log, dirs)
            /\ clones' = ClonesAfter(r.log, clones)
            /\ links' = LinksAfter(r.log, links)
            /\ UNCHANGED bisect

\* emm create-branch / update-branch: ModulesService.git_operate_base
GitOperateBase ==
    /\ last.op = "none"
    /\ \E operation \in GitActions, branch \in {NoValue, "feature"},
          manifest \in Manifests :
        LET plan == git_operate_base(operation, UserRev, branch, manifest, links, clones) IN
        \E failAt \in 0..Len(plan), caughtFails \in SUBSET Attempts(plan) :
            LET r == Run(plan, failAt, caughtFails) IN
            /\ ValidFailAt(plan, failAt)
            /\ last' = [Outcome("git_operate_base",
                           [operation |-> operation, revision |-> UserRev,
                            branch |-> branch, manifest |-> manifest], r,
                           error_encountered(operation, UserRev,
                               get_all_modules(TRUE, links, clones), manifest,
                               caughtFails))
                         EXCEPT !.printed = print_error_encountered(
                             error_encountered(operation, UserRev,
                                 get_all_modules(TRUE, links, clones), manifest,
                                 caughtFails))]
            /\ UNCHANGED <<dirs, links, clones, bisect>>

\* emm git branch-create (GitBranchService.create_branch)
CreateBranch ==
    /\ last.op = "none"
    /\ \E manifest \in Manifests :
        LET plan == create_branch("feature", UserRev, manifest, links, clones) IN
        \E failAt \in 0..Len(plan), caughtFails \in SUBSET Attempts(plan) :
            LET r == Run(plan, failAt, caughtFails) IN
            /\ ValidFailAt(plan, failAt)
            /\ last' = Outcome("create_branch",
                           [branch_name |-> "feature", branch_base |-> UserRev,
                            manifest |-> manifest], r,
                           RepoNames(collect_repositories(links, clones)))
            /\ UNCHANGED <<dirs, links, clones, bisect>>

\* emm git branch-update (GitBranchService.update_branch)
UpdateBranch ==
    /\ last.op = "none"
    /\ \E rebase \in BOOLEAN, manifest \in Manifests :
        LET plan == update_branch(ProjectBranch, rebase, manifest, links, clones) IN
        \E failAt \in 0..Len(plan), caughtFails \in SUBSET Attempts(plan) :
            LET r == Run(plan, failAt, caughtFails) IN
            /\ ValidFailAt(plan, failAt)
            /\ last' = Outcome("update_branch",
                           [branch |-> ProjectBranch, rebase |-> rebase,
                            manifest |-> manifest], r,
                           GitCommandOutputs(get_all_modules(TRUE, links, clones),
                               sync_all_modules_result(TRUE, manifest, links, clones)))
            /\ UNCHANGED <<dirs, links, clones, bisect>>

\* emm git pull (GitBranchService.pull)
Pull ==
    /\ last.op = "none"
    /\ \E rebase \in BOOLEAN, manifest \in Manifests :
        LET plan == pull(rebase, manifest, links, clones) IN
        \E failAt \in 0..Len(plan), caughtFails \in SUBSET Attempts(plan) :
            LET r == Run(plan, failAt, caughtFails) IN
            /\ ValidFailAt(plan, failAt)
            /\ last' = Outcome("pull", [rebase |-> rebase, manifest |-> manifest], r,
                           GitCommandOutputs(get_all_modules(TRUE, links, clones),
                               sync_all_modules_result(TRUE, manifest, links, clones)))
            /\ UNCHANGED <<dirs, links, clones, bisect>>

\* emm git commit [-m MESSAGE] [--amend] [--add] (GitCommitService.commit)
Commit ==
    /\ last.op = "none"
    /\ \E add \in BOOLEAN, amend \in BOOLEAN,
          status \in [Range(RepoNames(collect_repositories(links, clones))) -> Statuses] :
        LET plan == commit(add, status, links, clones) IN
        \E failAt \in 0..Len(plan), caughtFails \in SUBSET Attempts(plan) :
            LET r == Run(plan, failAt, caughtFails) IN
            /\ ValidFailAt(plan, failAt)
            /\ last' = Outcome("commit",
                           [add |-> add, amend |-> amend, status |-> status], r,
                           RepoNames(repos_with_changes(add,
                               collect_repositories(links, clones), status)))
            /\ UNCHANGED <<dirs, links, clones, bisect>>

\* emm git-commit -m MESSAGE (ModulesService.git_commit_modules)
GitCommitModules ==
    /\ last.op = "none"
    /\ LET plan == git_commit_modules(links, clones) IN
        \E failAt \in 0..Len(plan), caughtFails \in SUBSET Attempts(plan) :
            LET r == Run(plan, failAt, caughtFails) IN
            /\ ValidFailAt(plan, failAt)
            /\ last' = Outcome("git_commit_modules", <<>>, r, <<>>)
            /\ UNCHANGED <<dirs, links, clones, bisect>>

\* emm pull-request [--title T] [--body B] (create_pull_request)
CreatePullRequest ==
    /\ last.op = "none"
    /\ \E title \in {NoValue, "title"}, body \in {NoValue, "body"},
          changes \in [Range(RepoNames(collect_repositories(links, clones))) -> BOOLEAN] :
        \E branches \in [Range(RepoNames(changed_repos_of(changes, links, clones)))
                              -> BranchNames] :
        \* the remote of a repository on a protected branch is never used
        \E remotes \in {f \in [DOMAIN branches -> RemoteUrls] :
                            \A name \in DOMAIN branches :
                                branches[name] \in PROTECTED_BRANCHES
                                    => f[name] = DEFAULT_REMOTE} :
        LET plan == create_pull_request(title, body, DEFAULT_REMOTE, remotes, changes,
                                        branches, links, clones) IN
        \E failAt \in 0..Len(plan), caughtFails \in SUBSET Attempts(plan) :
            LET r == Run(plan, failAt, caughtFails) IN
            /\ ValidFailAt(plan, failAt)
            /\ last' = Outcome("pull_request",
                           [title |-> title, body |-> body, changes |-> changes,
                            branches |-> branches, remotes |-> remotes], r,
                           create_prs(changed_repos_of(changes, links, clones)))
            /\ UNCHANGED <<dirs, links, clones, bisect>>

\* ModulesService.git_pull_request(args)
GitPullRequest ==
    /\ last.op = "none"
    /\ \E changes \in [Range(get_all_modules(TRUE, links, clones)) -> BOOLEAN] :
        LET pushed == {BASE_REPO} \cup Range(changed_modules_of(changes, links, clones)) IN
        \E branches \in [pushed -> BranchNames], onRemote \in SUBSET pushed :
        LET plan == git_pull_request(changes, branches, onRemote, links, clones) IN
        \E failAt \in 0..Len(plan), caughtFails \in SUBSET Attempts(plan) :
            LET r == Run(plan, failAt, caughtFails) IN
            /\ ValidFailAt(plan, failAt)
            /\ last' = Outcome("git_pull_request",
                           [changes |-> changes, branches |-> branches,
                            onRemote |-> onRemote], r,
                           comment_dict(changes, links, clones))
            /\ UNCHANGED <<dirs, links, clones, bisect>>

\* emm git add PATHSPEC... (GitCommitService.add)
Add ==
    /\ last.op = "none"
    /\ \E answers \in [Range(RepoNames(collect_repositories(links, clones))) -> TouchCases] :
        LET plan == add_pathspecs(answers, links, clones) IN
        \E failAt \in 0..Len(plan), caughtFails \in SUBSET Attempts(plan) :
            LET r == Run(plan, failAt, caughtFails) IN
            /\ ValidFailAt(plan, failAt)
            /\ last' = Outcome("add", [answers |-> answers], r,
                           touched_output(answers, links, clones))
            /\ UNCHANGED <<dirs, links, clones, bisect>>

\* emm git restore [--staged] PATHSPEC... (GitCommitService.restore)
Restore ==
    /\ last.op = "none"
    /\ \E staged \in BOOLEAN,
          answers \in [Range(RepoNames(collect_repositories(links, clones))) -> TouchCases] :
        LET plan == restore_pathspecs(staged, answers, links, clones) IN
        \E failAt \in 0..Len(plan), caughtFails \in SUBSET Attempts(plan) :
            LET r == Run(plan, failAt, caughtFails) IN
            /\ ValidFailAt(plan, failAt)
            /\ last' = Outcome("restore", [staged |-> staged, answers |-> answers], r,
                           touched_output(answers, links, clones))
            /\ UNCHANGED <<dirs, links, clones, bisect>>

\* emm git branch-show (GitBranchService.branch_list)
BranchList ==
    /\ last.op = "none"
    /\ LET plan == branch_list(links, clones) IN
        \E failAt \in 0..Len(plan), caughtFails \in SUBSET Attempts(plan) :
            LET r == Run(plan, failAt, caughtFails) IN
            /\ ValidFailAt(plan, failAt)
            /\ last' = Outcome("branch_list", <<>>, r,
                           CommandOutputs("branch", links, clones))
            /\ UNCHANGED <<dirs, links, clones, bisect>>

\* emm git branch-switch (GitBranchService.switch_branch)
SwitchBranch ==
    /\ last.op = "none"
    /\ LET plan == switch_branch("feature", links, clones) IN
        \E failAt \in 0..Len(plan), caughtFails \in SUBSET Attempts(plan) :
            LET r == Run(plan, failAt, caughtFails) IN
            /\ ValidFailAt(plan, failAt)
            /\ last' = Outcome("switch_branch", [branch_name |-> "feature"], r,
                           RepoNames(collect_repositories(links, clones)))
            /\ UNCHANGED <<dirs, links, clones, bisect>>

\* emm git branch-delete (GitBranchService.delete_branch)
DeleteBranch ==
    /\ last.op = "none"
    /\ LET plan == delete_branch("feature", links, clones) IN
        \E failAt \in 0..Len(plan), caughtFails \in SUBSET Attempts(plan) :
            LET r == Run(plan, failAt, caughtFails) IN
            /\ ValidFailAt(plan, failAt)
            /\ last' = Outcome("delete_branch", [branch_name |-> "feature"], r,
                           RepoNames(collect_repositories(links, clones)))
            /\ UNCHANGED <<dirs, links, clones, bisect>>

\* emm git status (GitCommitService.status)
Status ==
    /\ last.op = "none"
    /\ LET plan == git_status(links, clones) IN
        \E failAt \in 0..Len(plan), caughtFails \in SUBSET Attempts(plan) :
            LET r == Run(plan, failAt, caughtFails) IN
            /\ ValidFailAt(plan, failAt)
            /\ last' = Outcome("status", <<>>, r,
                           CommandOutputs("status", links, clones))
            /\ UNCHANGED <<dirs, links, clones, bisect>>

\* emm patch [ARGS]: validate_evergreen_command, then submit_patch
SubmitPatch ==
    /\ last.op = "none"
    /\ \E on_path \in BOOLEAN, extra_args \in ExtraArgs, cmd_output \in PatchOutputs :
        LET plan == validate_evergreen_command(on_path) \o
                    create_patch(extra_args, cmd_output, links, clones) IN
        \E failAt \in 0..Len(plan), caughtFails \in SUBSET Attempts(plan) :
            LET r == Run(plan, failAt, caughtFails) IN
            /\ ValidFailAt(plan, failAt)
            /\ last' = [Outcome("patch",
                           [on_path |-> on_path, extra_args |-> extra_args,
                            cmd_output |-> cmd_output], r,
                           IF recognized(cmd_output) THEN PatchInfo(cmd_output)
                           ELSE <<>>)
                        EXCEPT !.printed =
                           IF r.ok THEN <<<<"Patch Submitted:",
                                            PatchInfo(cmd_output).patch_url>>>>
                           ELSE <<>>]
            /\ UNCHANGED <<dirs, links, clones, bisect>>

\* emm commit-queue [ARGS]: validate_evergreen_command, then submit_cq_patch
SubmitCqPatch ==
    /\ last.op = "none"
    /\ \E on_path \in BOOLEAN, extra_args \in ExtraArgs, cmd_output \in PatchOutputs :
        LET plan == validate_evergreen_command(on_path) \o
                    create_cq_patch(extra_args, cmd_output, links, clones) IN
        \E failAt \in 0..Len(plan), caughtFails \in SUBSET Attempts(plan) :
            LET r == Run(plan, failAt, caughtFails) IN
            /\ ValidFailAt(plan, failAt)
            /\ last' = [Outcome("commit_queue",
                           [on_path |-> on_path, extra_args |-> extra_args,
                            cmd_output |-> cmd_output], r,
                           IF recognized(cmd_output) THEN PatchInfo(cmd_output)
                           ELSE <<>>)
                        EXCEPT !.printed =
                           IF r.ok THEN <<<<"Patch Submitted:",
                                            PatchInfo(cmd_output).patch_url>>>>
                           ELSE <<>>]
            /\ UNCHANGED <<dirs, links, clones, bisect>>

\* emm pull-request [--title T] [--body B], the whole command
PullRequestCommand ==
    /\ last.op = "none"
    /\ \E on_path \in BOOLEAN, authenticated \in BOOLEAN,
          title \in {NoValue, "title"}, body \in {NoValue, "body"},
          changes \in [Range(RepoNames(collect_repositories(links, clones))) -> BOOLEAN] :
        \E branches \in [Range(RepoNames(changed_repos_of(changes, links, clones)))
                              -> {FeatureBranch, "main"}],
           remotes \in [Range(RepoNames(changed_repos_of(changes, links, clones)))
                              -> {DEFAULT_REMOTE}] :
        LET plan == pull_request(on_path, authenticated, title, body, remotes, changes,
                                 branches, links, clones) IN
        \E failAt \in 0..Len(plan), caughtFails \in SUBSET Attempts(plan) :
            LET r == Run(plan, failAt, caughtFails) IN
            /\ ValidFailAt(plan, failAt)
            /\ last' = Outcome("pull_request_command",
                           [on_path |-> on_path, authenticated |-> authenticated,
                            title |-> title, body |-> body, changes |-> changes,
                            branches |-> branches, remotes |-> remotes], r,
                           create_prs(changed_repos_of(changes, links, clones)))
            /\ UNCHANGED <<dirs, links, clones, bisect>>

\* emm list-modules [--enabled] [--show-details]
ListModules ==
    /\ last.op = "none"
    /\ \E enabled \in BOOLEAN, details \in BOOLEAN :
        LET plan == <<Evg("get_module_map", NoValue)>>
            modules == get_all_modules(enabled, links, clones) IN
        \E failAt \in 0..Len(plan), caughtFails \in SUBSET Attempts(plan) :
            LET r == Run(plan, failAt, caughtFails) IN
            /\ ValidFailAt(plan, failAt)
            /\ last' = [Outcome("list_modules",
                           [enabled |-> enabled, details |-> details], r, modules)
                        EXCEPT !.printed =
                           IF r.ok THEN display_modules(modules, details) ELSE <<>>]
            /\ UNCHANGED <<dirs, links, clones, bisect>>

\* the CLI process exits; nothing but the filesystem survives
Exit ==
    /\ last.op # "none"
    /\ last' = Idle
    /\ UNCHANGED <<dirs, links, clones, bisect>>

Next ==
    \/ Enable
    \/ Disable
    \/ GitOperateBase
    \/ CreateBranch
    \/ UpdateBranch
    \/ Pull
    \/ Commit
    \/ GitCommitModules
    \/ CreatePullRequest
    \/ GitPullRequest
    \/ Add
    \/ Restore
    \/ BranchList
    \/ SwitchBranch
    \/ DeleteBranch
    \/ Status
    \/ SubmitPatch
    \/ SubmitCqPatch
    \/ PullRequestCommand
    \/ ListModules
    \/ Exit

Spec == Init /\ [][Next]_vars

(***************************************************************************)
(* Links whose shared clone is gone.  No command removes a shared clone;   *)
(* a second specification lets it be deleted between two commands and      *)
(* runs the commands that look at the link path.                           *)
(***************************************************************************)
\* a shared clone is deleted in the modules directory, outside the tool
RemoveClone ==
    /\ last.op = "none"
    /\ \E m \in clones : clones' = clones \ {m}
    /\ UNCHANGED <<dirs, links, last, bisect>>

NextDangling ==
    \/ Enable
    \/ Disable
    \/ ListModules
    \/ RemoveClone
    \/ Exit

SpecDangling == Init /\ [][NextDangling]_vars

\* emm enable, on a machine with or without git
CliEnable ==
    /\ last.op = "none"
    /\ \E git_on_path \in BOOLEAN, name \in Modules, sync_commit \in BOOLEAN, manifest \in Manifests :
        LET plan == resolve_git(git_on_path) \o
                    (IF git_on_path
                     THEN enable(name, sync_commit, manifest, dirs, links, clones)
                     ELSE <<>>) IN
        \E failAt \in 0..Len(plan), caughtFails \in SUBSET Attempts(plan) :
            LET r == Run(plan, failAt, caughtFails) IN
            /\ ValidFailAt(plan, failAt)
            /\ last' = Outcome("cli_enable",
                           [git_on_path |-> git_on_path, name |-> name, sync_commit |-> sync_commit, manifest |-> manifest], r, <<>>)
            /\ dirs' = DirsAfter(r.log, dirs)
            /\ clones' = ClonesAfter(r.log, clones)
            /\ links' = LinksAfter(r.log, links)
            /\ UNCHANGED bisect

\* emm disable, on a machine with or without git
CliDisable ==
    /\ last.op = "none"
    /\ \E git_on_path \in BOOLEAN, name \in Modules :
        LET plan == resolve_git(git_on_path) \o
                    (IF git_on_path THEN disable(name, links, clones) ELSE <<>>) IN
        \E failAt \in 0..Len(plan), caughtFails \in SUBSET Attempts(plan) :
            LET r == Run(plan, failAt, caughtFails) IN
            /\ ValidFailAt(plan, failAt)
            /\ last' = Outcome("cli_disable",
                           [git_on_path |-> git_on_path, name |-> name], r, <<>>)
            /\ dirs' = DirsAfter(r.log, dirs)
            /\ clones' = ClonesAfter(r.log, clones)
            /\ links' = LinksAfter(r.log, links)
            /\ UNCHANGED bisect

\* emm create-branch -b BRANCH [-r REVISION]
CliCreateBranch ==
    /\ last.op = "none"
    /\ \E git_on_path \in BOOLEAN, manifest \in Manifests :
        LET plan == validated(git_on_path,
                        git_operate_base("checkout", UserRev, "feature", manifest,
                                         links, clones)) IN
        \E failAt \in 0..Len(plan), caughtFails \in SUBSET Attempts(plan) :
            LET r == Run(plan, failAt, caughtFails) IN
            /\ ValidFailAt(plan, failAt)
            /\ last' = Outcome("cli_create_branch",
                           [git_on_path |-> git_on_path, manifest |-> manifest], r, <<>>)
            /\ UNCHANGED <<dirs, links, clones, bisect>>

\* emm update-branch -r REVISION [-o merge|rebase]
CliUpdateBranch ==
    /\ last.op = "none"
    /\ \E git_on_path \in BOOLEAN, operation \in {"merge", "rebase"}, manifest \in Manifests :
        LET plan == validated(git_on_path,
                        git_operate_base(operation, UserRev, NoValue, manifest,
                                         links, clones)) IN
        \E failAt \in 0..Len(plan), caughtFails \in SUBSET Attempts(plan) :
            LET r == Run(plan, failAt, caughtFails) IN
            /\ ValidFailAt(plan, failAt)
            /\ last' = Outcome("cli_update_branch",
                           [git_on_path |-> git_on_path, operation |-> operation, manifest |-> manifest], r, <<>>)
            /\ UNCHANGED <<dirs, links, clones, bisect>>

\* emm git-commit -m MESSAGE
CliGitCommit ==
    /\ last.op = "none"
    /\ \E git_on_path \in BOOLEAN :
        LET plan == validated(git_on_path, git_commit_modules(links, clones)) IN
        \E failAt \in 0..Len(plan), caughtFails \in SUBSET Attempts(plan) :
            LET r == Run(plan, failAt, caughtFails) IN
            /\ ValidFailAt(plan, failAt)
            /\ last' = Outcome("cli_git_commit",
                           [git_on_path |-> git_on_path], r, <<>>)
            /\ UNCHANGED <<dirs, links, clones, bisect>>

\* emm git branch-create
GitBranchCreate ==
    /\ last.op = "none"
    /\ \E git_on_path \in BOOLEAN, manifest \in Manifests :
        LET plan == validated(git_on_path,
                        create_branch("feature", UserRev, manifest, links, clones)) IN
        \E failAt \in 0..Len(plan), caughtFails \in SUBSET Attempts(plan) :
            LET r == Run(plan, failAt, caughtFails) IN
            /\ ValidFailAt(plan, failAt)
            /\ last' = Outcome("git_branch_create",
                           [git_on_path |-> git_on_path, manifest |-> manifest], r, <<>>)
            /\ UNCHANGED <<dirs, links, clones, bisect>>

\* emm git branch-show
GitBranchShow ==
    /\ last.op = "none"
    /\ \E git_on_path \in BOOLEAN :
        LET plan == validated(git_on_path, branch_list(links, clones)) IN
        \E failAt \in 0..Len(plan), caughtFails \in SUBSET Attempts(plan) :
            LET r == Run(plan, failAt, caughtFails) IN
            /\ ValidFailAt(plan, failAt)
            /\ last' = Outcome("git_branch_show",
                           [git_on_path |-> git_on_path], r, <<>>)
            /\ UNCHANGED <<dirs, links, clones, bisect>>

\* emm git branch-switch
GitBranchSwitch ==
    /\ last.op = "none"
    /\ \E git_on_path \in BOOLEAN :
        LET plan == validated(git_on_path, switch_branch("feature", links, clones)) IN
        \E failAt \in 0..Len(plan), caughtFails \in SUBSET Attempts(plan) :
            LET r == Run(plan, failAt, caughtFails) IN
            /\ ValidFailAt(plan, failAt)
            /\ last' = Outcome("git_branch_switch",
                           [git_on_path |-> git_on_path], r, <<>>)
            /\ UNCHANGED <<dirs, links, clones, bisect>>

\* emm git branch-delete
GitBranchDelete ==
    /\ last.op = "none"
    /\ \E git_on_path \in BOOLEAN :
        LET plan == validated(git_on_path, delete_branch("feature", links, clones)) IN
        \E failAt \in 0..Len(plan), caughtFails \in SUBSET Attempts(plan) :
            LET r == Run(plan, failAt, caughtFails) IN
            /\ ValidFailAt(plan, failAt)
            /\ last' = Outcome("git_branch_delete",
                           [git_on_path |-> git_on_path], r, <<>>)
            /\ UNCHANGED <<dirs, links, clones, bisect>>

\* emm git branch-pull
GitBranchPull ==
    /\ last.op = "none"
    /\ \E git_on_path \in BOOLEAN, rebase \in BOOLEAN, manifest \in Manifests :
        LET plan == validated(git_on_path, pull(rebase, manifest, links, clones)) IN
        \E failAt \in 0..Len(plan), caughtFails \in SUBSET Attempts(plan) :
            LET r == Run(plan, failAt, caughtFails) IN
            /\ ValidFailAt(plan, failAt)
            /\ last' = Outcome("git_branch_pull",
                           [git_on_path |-> git_on_path, rebase |-> rebase, manifest |-> manifest], r, <<>>)
            /\ UNCHANGED <<dirs, links, clones, bisect>>

\* emm git branch-update
GitBranchUpdate ==
    /\ last.op = "none"
    /\ \E git_on_path \in BOOLEAN, rebase \in BOOLEAN, manifest \in Manifests :
        LET plan == validated(git_on_path,
                        update_branch(ProjectBranch, rebase, manifest, links, clones)) IN
        \E failAt \in 0..Len(plan), caughtFails \in SUBSET Attempts(plan) :
            LET r == Run(plan, failAt, caughtFails) IN
            /\ ValidFailAt(plan, failAt)
            /\ last' = Outcome("git_branch_update",
                           [git_on_path |-> git_on_path, rebase |-> rebase, manifest |-> manifest], r, <<>>)
            /\ UNCHANGED <<dirs, links, clones, bisect>>

\* emm git status
GitStatus ==
    /\ last.op = "none"
    /\ \E git_on_path \in BOOLEAN :
        LET plan == validated(git_on_path, git_status(links, clones)) IN
        \E failAt \in 0..Len(plan), caughtFails \in SUBSET Attempts(plan) :
            LET r == Run(plan, failAt, caughtFails) IN
            /\ ValidFailAt(plan, failAt)
            /\ last' = Outcome("git_cli_status",
                           [git_on_path |-> git_on_path], r, <<>>)
            /\ UNCHANGED <<dirs, links, clones, bisect>>

\* emm git commit
GitCommit ==
    /\ last.op = "none"
    /\ \E git_on_path \in BOOLEAN, add_all \in BOOLEAN, status_of \in [Range(RepoNames(collect_repositories(links, clones))) -> Statuses] :
        LET plan == validated(git_on_path, commit(add_all, status_of, links, clones)) IN
        \E failAt \in 0..Len(plan), caughtFails \in SUBSET Attempts(plan) :
            LET r == Run(plan, failAt, caughtFails) IN
            /\ ValidFailAt(plan, failAt)
            /\ last' = Outcome("git_cli_commit",
                           [git_on_path |-> git_on_path, add_all |-> add_all, status_of |-> status_of], r, <<>>)
            /\ UNCHANGED <<dirs, links, clones, bisect>>

\* emm git add
GitAdd ==
    /\ last.op = "none"
    /\ \E git_on_path \in BOOLEAN, answers \in [Range(RepoNames(collect_repositories(links, clones))) -> TouchCases] :
        LET plan == validated(git_on_path, add_pathspecs(answers, links, clones)) IN
        \E failAt \in 0..Len(plan), caughtFails \in SUBSET Attempts(plan) :
            LET r == Run(plan, failAt, caughtFails) IN
            /\ ValidFailAt(plan, failAt)
            /\ last' = Outcome("git_cli_add",
                           [git_on_path |-> git_on_path, answers |-> answers], r, <<>>)
            /\ UNCHANGED <<dirs, links, clones, bisect>>

\* emm git restore
GitRestore ==
    /\ last.op = "none"
    /\ \E git_on_path \in BOOLEAN, staged \in BOOLEAN, answers \in [Range(RepoNames(collect_repositories(links, clones))) -> TouchCases] :
        LET plan == validated(git_on_path,
                        restore_pathspecs(staged, answers, links, clones)) IN
        \E failAt \in 0..Len(plan), caughtFails \in SUBSET Attempts(plan) :
            LET r == Run(plan, failAt, caughtFails) IN
            /\ ValidFailAt(plan, failAt)
            /\ last' = Outcome("git_cli_restore",
                           [git_on_path |-> git_on_path, staged |-> staged, answers |-> answers], r, <<>>)
            /\ UNCHANGED <<dirs, links, clones, bisect>>

\* the commands that run git, on machines with and without git
NextGitPath ==
    \/ CliEnable
    \/ CliDisable
    \/ CliCreateBranch
    \/ CliUpdateBranch
    \/ CliGitCommit
    \/ GitBranchCreate
    \/ GitBranchShow
    \/ GitBranchSwitch
    \/ GitBranchDelete
    \/ GitBranchPull
    \/ GitBranchUpdate
    \/ GitStatus
    \/ GitCommit
    \/ GitAdd
    \/ GitRestore
    \/ Exit

SpecGitPath == Init /\ [][NextGitPath]_vars

\* the dates a bisect is started with: dates, dates with an hour, dates with
\* a time, and a string string_to_datetime refuses
MaxDay == 4
DateStrings ==
    {<<Year, Month, d>> : d \in {1, MaxDay}}
    \cup {<<Year, Month, 2, h>> : h \in {1, 23}}
    \cup {<<Year, Month, 1, h, mi, 1>> : h \in {0, 1}, mi \in {0, 59}}
    \cup {<<Year, Month>>}

\* perform_bisect_action("start", start, end)
BisectStart ==
    /\ last.op = "none"
    /\ \E start \in DateStrings, end \in DateStrings :
        LET plan == perform_bisect_action("start", start, end, bisect) IN
        \E failAt \in 0..Len(plan), caughtFails \in SUBSET Attempts(plan) :
            LET r == Run(plan, failAt, caughtFails) IN
            /\ ValidFailAt(plan, failAt)
            /\ last' = Outcome("bisect_start",
                           [start |-> start, end |-> end], r, <<>>)
            /\ bisect' = BisectAfter(r.log, [start |-> start, end |-> end], bisect)
            /\ UNCHANGED <<dirs, links, clones>>

\* perform_bisect_action("good" | "bad", ...)
BisectMark ==
    /\ last.op = "none"
    /\ \E bisect_action \in {"good", "bad"} :
        LET plan == perform_bisect_action(bisect_action, NoValue, NoValue, bisect) IN
        \E failAt \in 0..Len(plan), caughtFails \in SUBSET Attempts(plan) :
            LET r == Run(plan, failAt, caughtFails) IN
            /\ ValidFailAt(plan, failAt)
            /\ last' = Outcome("bisect_mark",
                           [bisect_action |-> bisect_action, state |-> bisect], r, <<>>)
            /\ bisect' = BisectAfter(r.log, marked_state(bisect_action, bisect), bisect)
            /\ UNCHANGED <<dirs, links, clones>>

\* perform_bisect_action with any other action
BisectUnknown ==
    /\ last.op = "none"
    /\ LET plan == perform_bisect_action("skip", NoValue, NoValue, bisect) IN
        \E failAt \in 0..Len(plan), caughtFails \in SUBSET Attempts(plan) :
            LET r == Run(plan, failAt, caughtFails) IN
            /\ ValidFailAt(plan, failAt)
            /\ last' = Outcome("bisect_unknown",
                           [bisect_action |-> "skip", state |-> bisect], r, <<>>)
            /\ UNCHANGED <<dirs, links, clones, bisect>>

\* the bisect over dates in one working directory
NextBisect ==
    \/ BisectStart
    \/ BisectMark
    \/ BisectUnknown
    \/ Exit

SpecBisect == Init /\ [][NextBisect]_vars

(***************************************************************************)
(* Properties                                                              *)
(***************************************************************************)
LogIdx == 1..Len(last.log)

\* positions of the log that hold the given git command in the given repo
CallsOf(cmd, repo) ==
    {i \in LogIdx : last.log[i].tool = "git" /\ last.log[i].cmd = cmd
                     /\ last.log[i].repo = repo}

\* modules that were enabled when the last command started
EnabledBefore ==
    {m \in Modules : is_module_enabled(m, last.pre.links, last.pre.clones)}

ErrorKey(repo) == IF repo = BASE_REPO THEN BASE_ERROR_KEY ELSE repo

\* repositories on which the action of the last git_operate_base failed
FailedActionRepos ==
    {last.log[i].repo : i \in {j \in LogIdx :
        /\ last.log[j].cmd = last.args.operation
        /\ ~last.log[j].ok}}

OperateBaseCase ==
    /\ last.op = "git_operate_base"
    /\ last.args.manifest.has
    /\ EnabledBefore \subseteq DOMAIN last.args.manifest.mods
    /\ \A i \in LogIdx : last.log[i].cmd \notin GitActions => last.log[i].ok

\* C1: in git_operate_base with every enabled module in the manifest and
\* only action calls failing, the action is attempted exactly once on the
\* base repo and on each enabled module, the call returns normally, and the
\* error map has exactly one entry per repository whose call failed
\* ("BASE" for the base repo)
C1_OperateBaseToleratesFailures ==
    OperateBaseCase =>
        /\ last.ok
        /\ \A r \in EnabledBefore \cup {BASE_REPO} :
              Cardinality(CallsOf(last.args.operation, r)) = 1
        /\ DOMAIN last.ret = {ErrorKey(r) : r \in FailedActionRepos}
        /\ Cardinality(DOMAIN last.ret) = Cardinality(FailedActionRepos)

C1_Witness ==
    /\ OperateBaseCase
    /\ Cardinality(EnabledBefore) = NumModules
    /\ BASE_REPO \in FailedActionRepos
    /\ \E m \in EnabledBefore : m \in FailedActionRepos
    /\ \E m \in EnabledBefore : m \notin FailedActionRepos

\* the base repo's merge, rebase or pull call
IsBaseUpdate(i) ==
    /\ last.log[i].tool = "git"
    /\ last.log[i].repo = BASE_REPO
    /\ last.log[i].cmd \in {"merge", "rebase", "pull"}

\* a fetch or a checkout/rebase/merge call in a module
IsModuleFetchOrSync(j) ==
    /\ last.log[j].tool = "git"
    /\ last.log[j].repo \in Modules
    /\ last.log[j].cmd \in {"fetch", "checkout", "rebase", "merge"}

\* C2 as stated: in update_branch and pull the base repo's merge/rebase/pull
\* call comes before every module's fetch call and every module's sync call
C2_BaseBeforeAnyModuleCall ==
    last.op \in {"update_branch", "pull"} =>
        \A j \in LogIdx : IsModuleFetchOrSync(j) =>
            \E i \in LogIdx : i < j /\ IsBaseUpdate(i)

\* C2 amended: in update_branch and pull the base repo's merge/rebase/pull
\* call has succeeded before any call of the module sync (manifest lookup,
\* fetch and rebase/merge of each module); the only module calls before it
\* are the fetches update_branch first runs in every repository
C2_BaseBeforeModuleSync ==
    last.op \in {"update_branch", "pull"} =>
        /\ \A j \in LogIdx : last.log[j].by = "sync_all_modules" =>
              \E i \in LogIdx : i < j /\ IsBaseUpdate(i) /\ last.log[i].ok
        /\ \A j \in LogIdx :
              (IsModuleFetchOrSync(j) /\ last.log[j].by # "sync_all_modules") =>
                  /\ last.op = "update_branch"
                  /\ last.log[j].cmd = "fetch"
                  /\ \A i \in LogIdx : IsBaseUpdate(i) => j < i

C2_Witness ==
    /\ last.op = "update_branch"
    /\ last.ok
    /\ Cardinality(EnabledBefore) = NumModules
    /\ \A m \in Modules :
          \E j \in LogIdx : /\ last.log[j].repo = m
                             /\ last.log[j].by = "sync_all_modules"
                             /\ last.log[j].cmd \in {"rebase", "merge"}

\* the calls of create_branch that create the branch
BranchCreations ==
    {i \in LogIdx : /\ last.log[i].tool = "git"
                     /\ last.log[i].cmd = "checkout"
                     /\ last.log[i].br = last.args.branch_name}

ReposBefore == collect_repositories(last.pre.links, last.pre.clones)

\* C3: create_branch aborts on the first failure: a failed call makes the
\* command fail with that error, no call follows a failed call, and the
\* branch is created only in the repositories before the failing one
C3_CreateBranchAbortsOnFirstFailure ==
    last.op = "create_branch" =>
        /\ \A i \in LogIdx : ~last.log[i].ok =>
              /\ ~last.ok
              /\ last.err = ProcessError
              /\ i = Len(last.log)
        /\ \A i \in BranchCreations :
              LET k == CHOOSE n \in 1..Len(ReposBefore) :
                           ReposBefore[n].name = last.log[i].repo
              IN  \A n \in 1..Len(ReposBefore) :
                    (\E j \in BranchCreations :
                        last.log[j].repo = ReposBefore[n].name /\ ~last.log[j].ok)
                    => k <= n

C3_Witness ==
    /\ last.op = "create_branch"
    /\ ~last.ok
    /\ Cardinality(EnabledBefore) = NumModules
    /\ Cardinality(BranchCreations) = 1
    /\ \E i \in BranchCreations : ~last.log[i].ok

\* the project configuration was read
ConfigRead ==
    \E i \in LogIdx : last.log[i].cmd = "get_module_map" /\ last.log[i].ok

FilesystemUnchanged ==
    /\ dirs = last.pre.dirs
    /\ links = last.pre.links
    /\ clones = last.pre.clones

EnableOfEnabledCase ==
    /\ last.op = "enable"
    /\ ConfigRead
    /\ last.args.name \in Modules
    /\ path_exists_link(last.args.name, last.pre.links, last.pre.clones)

\* C4: enable of a module whose link path exists fails with AlreadyEnabled
\* and changes nothing: no mkdirs, no clone, no symlink, no manifest fetch,
\* no git fetch, no checkout (the only call is the configuration lookup)
C4_EnableTwiceFailsUntouched ==
    EnableOfEnabledCase =>
        /\ ~last.ok
        /\ last.err = "AlreadyEnabled"
        /\ FilesystemUnchanged
        /\ \A i \in LogIdx : last.log[i].cmd = "get_module_map"

C4_Witness ==
    /\ EnableOfEnabledCase
    /\ last.args.sync_commit
    /\ last.err = "AlreadyEnabled"

DisableOfEnabledCase ==
    /\ last.op = "disable"
    /\ ConfigRead
    /\ last.args.name \in Modules
    /\ path_exists_link(last.args.name, last.pre.links, last.pre.clones)

\* C5: disable of an enabled module removes exactly the link prefix/name:
\* the module is no longer enabled, the shared clones and the directories
\* are as before, every other link is as before, and no git command runs
C5_DisableRemovesOnlyTheLink ==
    DisableOfEnabledCase =>
        /\ last.ok
        /\ ~is_module_enabled(last.args.name, links, clones)
        /\ links = last.pre.links \ {last.args.name}
        /\ clones = last.pre.clones
        /\ last.args.name \in clones
        /\ dirs = last.pre.dirs
        /\ \A i \in LogIdx : last.log[i].tool # "git"
        /\ \A i \in LogIdx : last.log[i].tool = "fs" =>
              /\ last.log[i].cmd = "unlink"
              /\ last.log[i].dir = ModuleDir(last.args.name)

C5_Witness ==
    /\ DisableOfEnabledCase
    /\ last.ok
    /\ links # {}
    /\ last.args.name \notin links

\* the manifest was fetched from the build system
ManifestFetched ==
    \E i \in LogIdx : last.log[i].cmd = "get_manifest" /\ last.log[i].ok

\* the modules whose pinned revision the last command asks for
RequestedModules ==
    IF last.op = "enable" THEN {last.args.name} ELSE EnabledBefore

NoSyncCallIn(m) ==
    \A i \in LogIdx :
        ~(/\ last.log[i].tool = "git"
          /\ last.log[i].repo = m
          /\ last.log[i].cmd \in {"fetch", "checkout", "rebase", "merge"})

\* C6: resolving a module's pinned revision (sync_module in enable, and
\* git_operate_modules) fails with ManifestMissing when the manifest has no
\* modules section, whatever module is requested, and with
\* ModuleNotInManifest when the section has no entry for a requested module;
\* no fetch and no checkout/rebase/merge runs in a module that has no entry
C6_ManifestLookupIsPrecise ==
    (last.op \in {"enable", "git_operate_base"} /\ ManifestFetched) =>
        /\ ~last.args.manifest.has =>
              /\ last.err = "ManifestMissing"
              /\ \A m \in RequestedModules : NoSyncCallIn(m)
        /\ (/\ last.args.manifest.has
            /\ \E m \in RequestedModules : m \notin DOMAIN last.args.manifest.mods) =>
              /\ last.err = "ModuleNotInManifest"
              /\ \A m \in RequestedModules \ DOMAIN last.args.manifest.mods :
                    NoSyncCallIn(m)

C6_Witness ==
    /\ last.op = "enable"
    /\ ManifestFetched
    /\ last.args.manifest.has
    /\ DOMAIN last.args.manifest.mods # {}
    /\ last.args.name \notin DOMAIN last.args.manifest.mods
    /\ last.err = "ModuleNotInManifest"

(***************************************************************************)
(* GitCommitService.commit                                                 *)
(***************************************************************************)
\* a status line that reports a committable change: not an untracked file,
\* and staged (first column not blank) unless --add stages everything
CommittableLine(add, line) ==
    /\ Len(line) >= 2
    /\ ~(line[1] = "?" /\ line[2] = "?")
    /\ (add \/ line[1] # " ")

\* the repository's status, as given to the last commit, shows a
\* committable change
ShowsCommittableChange(repo) ==
    \E i \in 1..Len(last.args.status[repo]) :
        CommittableLine(last.args.add, last.args.status[repo][i])

\* repositories in which the last command invoked git commit
CommittedRepos == {last.log[i].repo : i \in {j \in LogIdx : last.log[j].cmd = "commit"}}

\* C7: commit invokes git commit on a module exactly when the module's
\* status shows a committable change: never on a module without one (a
\* module with no status lines included), and, when the command returns, on
\* every enabled module with one, once; the returned list names exactly the
\* repositories that were committed
C7_CommitExactlyChangedModules ==
    last.op = "commit" =>
        /\ \A m \in Modules :
               m \in CommittedRepos => m \in EnabledBefore /\ ShowsCommittableChange(m)
        /\ \A m \in EnabledBefore :
               last.args.status[m] = <<>> => m \notin CommittedRepos
        /\ last.ok =>
               /\ \A m \in EnabledBefore :
                      ShowsCommittableChange(m) => Cardinality(CallsOf("commit", m)) = 1
               /\ Range(last.ret) = CommittedRepos
               /\ Len(last.ret) = Cardinality(CommittedRepos)

\* C7 witness: a commit returned after committing one enabled module and
\* leaving out another enabled module that has nothing to commit
C7_Witness ==
    /\ last.op = "commit" /\ last.ok
    /\ \E m \in EnabledBefore, n \in EnabledBefore :
           /\ m \in CommittedRepos /\ m \in Range(last.ret)
           /\ n \notin CommittedRepos /\ last.args.status[n] = <<>>

PrCallsOf(cmd, repo) ==
    {i \in LogIdx : last.log[i].cmd = cmd /\ last.log[i].repo = repo}

\* the calls that act on a repository's changes
PrWrites == {"determine_remote", "push", "commit_message", "pr_create", "pr_comment"}

\* names of the repositories the last command collected
CollectedBefore == Range(RepoNames(ReposBefore))

\* collected repositories whose HEAD differs from the target branch
WithDiff == {r \in CollectedBefore : last.args.changes[r]}

\* C9: create_pull_request skips a repository without a diff against its
\* target branch (no push, no pull request, no comment), never opens two
\* pull requests in one repository, and when it returns it has opened
\* exactly one pull request in every repository with a diff and returns
\* exactly one record per such repository, named after it
C9_OnePullRequestPerChangedRepo ==
    last.op = "pull_request" =>
        /\ \A i \in LogIdx :
               last.log[i].cmd \in PrWrites => last.log[i].repo \in WithDiff
        /\ \A r \in CollectedBefore \ WithDiff :
               \A i \in LogIdx :
                   (last.log[i].tool \in {"git", "gh"} /\ last.log[i].repo = r)
                       => last.log[i].cmd = "diff"
        /\ \A r \in CollectedBefore : Cardinality(PrCallsOf("pr_create", r)) <= 1
        /\ last.ok =>
               /\ \A r \in WithDiff :
                      /\ Cardinality(PrCallsOf("pr_create", r)) = 1
                      /\ Cardinality(PrCallsOf("push", r)) = 1
                      /\ Cardinality({i \in 1..Len(last.ret) : last.ret[i].name = r}) = 1
               /\ Len(last.ret) = Cardinality(WithDiff)
               /\ \A i \in 1..Len(last.ret) : last.ret[i].name \in WithDiff

\* C9 witness: a pull request command returned with a record for a changed
\* repository while another collected repository without a diff was skipped
C9_Witness ==
    /\ last.op = "pull_request" /\ last.ok
    /\ \E r \in WithDiff, q \in CollectedBefore \ WithDiff :
           /\ PrCallsOf("pr_create", r) # {}
           /\ PrCallsOf("diff", q) # {}
           /\ PrCallsOf("pr_create", q) = {}
           /\ \E i \in 1..Len(last.ret) : last.ret[i].name = r

\* positions of the pull requests created and of the comments posted
CreatedAt == {i \in LogIdx : last.log[i].cmd = "pr_create" /\ last.log[i].ok}
CommentsAt == {i \in LogIdx : last.log[i].cmd = "pr_comment"}
PostedAt == {i \in CommentsAt : last.log[i].ok}

\* links of the created pull requests; links a comment body contains
CreatedLinks == {last.log[i].rev : i \in CreatedAt}
LinksIn(comment) == {comment[j][4] : j \in 1..Len(comment)}

\* C10: a comment is posted only when two or more pull requests were
\* created, on a created pull request, and contains the link of every other
\* created pull request and not its own; when the command returns after
\* creating k >= 2 pull requests, exactly k comments were posted, one on
\* each of them; with one pull request or none, no comment is posted
C10_CommentsLinkTheOtherPullRequests ==
    last.op = "pull_request" =>
        /\ \A c \in CommentsAt :
               /\ Cardinality(CreatedAt) >= 2
               /\ last.log[c].rev \in CreatedLinks
               /\ LinksIn(last.log[c].data) = CreatedLinks \ {last.log[c].rev}
        /\ Cardinality(CreatedAt) <= 1 => CommentsAt = {}
        /\ (last.ok /\ Cardinality(CreatedAt) >= 2) =>
               /\ Cardinality(PostedAt) = Cardinality(CreatedAt)
               /\ \A link \in CreatedLinks :
                      Cardinality({c \in PostedAt : last.log[c].rev = link}) = 1

\* C10 witness: a pull request command returned after creating two or more
\* pull requests and commenting on them
C10_Witness ==
    /\ last.op = "pull_request" /\ last.ok
    /\ Cardinality(CreatedAt) >= 2
    /\ PostedAt # {}
    /\ \E c \in PostedAt : Len(last.log[c].data) >= 1



(***************************************************************************)
(* Protected branches                                                      *)
(***************************************************************************)
PushFlows == {"pull_request", "git_pull_request"}

\* positions at which a push found the repository on a protected branch
ProtectedAt ==
    {i \in LogIdx : /\ last.log[i].cmd = "current_branch"
                    /\ last.log[i].by = "push_branch_to_remote"
                    /\ last.log[i].ok
                    /\ last.args.branches[last.log[i].repo] \in PROTECTED_BRANCHES}

\* no git push is run in a repository whose current branch is protected, and
\* finding one ends the command at once
NoProtectedPush ==
    /\ \A i \in LogIdx :
           last.log[i].cmd = "push" =>
               last.args.branches[last.log[i].repo] \notin PROTECTED_BRANCHES
    /\ \A i \in ProtectedAt : ~last.ok /\ i = Len(last.log)

\* the error each flow raises for a protected branch: click.UsageError in
\* GitProxy.push_branch_to_remote, ValueError in ModulesService
ProtectedBranchPush(op) == IF op = "pull_request" THEN "UsageError" ELSE "ValueError"

NamedIn(file, line) ==
    \E k \in 4..Len(line) :
        k + Len(file) - 1 <= Len(line) /\ SubSeq(line, k, k + Len(file) - 1) = file

\* files the short status of the repository names; files its listing holds
FilesNamedInStatus(repo) ==
    {f \in Files : \E i \in 1..Len(last.args.answers[repo].status) :
                       NamedIn(f, last.args.answers[repo].status[i])}
FilesListed(repo) == Range(last.args.answers[repo].ls_files)

\* positions of the git add / git restore calls of the last command
TrackCallsAt == {i \in LogIdx : last.log[i].cmd \in {"add", "restore"}}

\* C12 as stated: the files passed to git add / git restore in a repository
\* are exactly the files that are both listed by ls-files and named in the
\* repository's short status
C12_PassedFilesAreTheIntersection ==
    last.op \in {"add", "restore"} =>
        \A i \in TrackCallsAt :
            Range(last.log[i].data) =
                FilesListed(last.log[i].repo) \cap FilesNamedInStatus(last.log[i].repo)

\* C12, the half that holds: a file that is not both listed and named in
\* the status is never passed to git add / git restore
C12_OnlyListedAndNamedFilesPassed ==
    last.op \in {"add", "restore"} =>
        \A i \in TrackCallsAt :
            Range(last.log[i].data) \subseteq
                FilesListed(last.log[i].repo) \cap FilesNamedInStatus(last.log[i].repo)

\* C12 witness: a staged rename "R  f1 -> f2" with f2 listed, and git add or
\* git restore called without f2
C12_Witness ==
    /\ last.op \in {"add", "restore"}
    /\ \E i \in TrackCallsAt :
           /\ <<"f", "2">> \in FilesListed(last.log[i].repo)
           /\ <<"f", "2">> \in FilesNamedInStatus(last.log[i].repo)
           /\ <<"f", "2">> \notin Range(last.log[i].data)



(***************************************************************************)
(* collect_repositories                                                    *)
(***************************************************************************)
\* the repositories create_pull_request asked for a diff, in call order:
\* one git diff per collected repository, in its directory, against its
\* target branch
DiffedRepos ==
    LET IsDiff(s) == s.cmd = "diff"
        calls == SelectSeq(last.log, IsDiff)
    IN  [i \in 1..Len(calls) |->
            [name |-> calls[i].repo, directory |-> calls[i].dir,
             target_branch |-> calls[i].rev]]

\* C13: with N enabled modules collect_repositories gives N+1 repositories
\* with pairwise distinct names: one per enabled module, in directory
\* prefix/name and targeting the module's branch, and exactly one named
\* "base", without directory, targeting the project branch, as last entry
C13_CollectRepositoriesShape ==
    last.op = "pull_request" =>
        /\ \A i \in 1..Len(DiffedRepos) : DiffedRepos[i] = ReposBefore[i]
        /\ Len(ReposBefore) = Cardinality(EnabledBefore) + 1
        /\ \A i, j \in 1..Len(ReposBefore) :
               ReposBefore[i].name = ReposBefore[j].name => i = j
        /\ {ReposBefore[i].name : i \in 1..Len(ReposBefore)} = EnabledBefore \cup {BASE_REPO}
        /\ \A i \in 1..Len(ReposBefore) :
               IF i = Len(ReposBefore)
               THEN ReposBefore[i] = [name |-> BASE_REPO, directory |-> NoDir,
                                      target_branch |-> ProjectBranch]
               ELSE /\ ReposBefore[i].name \in EnabledBefore
                    /\ ReposBefore[i].directory =
                           <<PrefixOf(ReposBefore[i].name), ReposBefore[i].name>>
                    /\ ReposBefore[i].target_branch = ModuleBranch(ReposBefore[i].name)
        /\ last.ok => Len(DiffedRepos) = Len(ReposBefore)

\* C13 witness: create_pull_request returned after asking two enabled
\* modules and then the base repo for their diff
C13_Witness ==
    /\ last.op = "pull_request" /\ last.ok
    /\ Cardinality(EnabledBefore) = 2
    /\ Len(DiffedRepos) = 3
    /\ DiffedRepos[3].name = BASE_REPO
    /\ DiffedRepos[1].name # DiffedRepos[2].name



(***************************************************************************)
(* git_operate_base: revisions                                             *)
(***************************************************************************)
\* positions of the checkout / rebase / merge calls of the last command
ActionCallsAt == {i \in LogIdx : last.log[i].tool = "git" /\ last.log[i].cmd \in GitActions}

\* C14: git_operate_base applies the requested action to the base repo with
\* the caller's revision, and the same action to each enabled module, in
\* prefix/name, with the revision the manifest pins for that very module;
\* when it returns every enabled module and the base repo were operated once
C14_EachModuleAtItsOwnRevision ==
    last.op = "git_operate_base" =>
        /\ \A i \in ActionCallsAt :
               /\ last.log[i].cmd = last.args.operation
               /\ last.log[i].br =
                      (IF last.args.operation = "checkout" THEN last.args.branch ELSE NoValue)
               /\ IF last.log[i].repo = BASE_REPO
                  THEN /\ last.log[i].rev = last.args.revision
                       /\ last.log[i].dir = NoDir
                  ELSE /\ last.log[i].repo \in EnabledBefore
                       /\ last.log[i].repo \in DOMAIN last.args.manifest.mods
                       /\ last.log[i].rev = last.args.manifest.mods[last.log[i].repo]
                       /\ last.log[i].dir = <<PrefixOf(last.log[i].repo), last.log[i].repo>>
        /\ Cardinality({i \in ActionCallsAt : last.log[i].repo = BASE_REPO}) = 1
        /\ last.ok =>
               \A m \in EnabledBefore :
                   Cardinality({i \in ActionCallsAt : last.log[i].repo = m}) = 1

\* C14 witness: git_operate_base returned after operating two enabled
\* modules that the manifest pins at different revisions
C14_Witness ==
    /\ last.op = "git_operate_base" /\ last.ok
    /\ \E i, j \in ActionCallsAt :
           /\ last.log[i].repo \in EnabledBefore /\ last.log[j].repo \in EnabledBefore
           /\ last.log[i].rev # last.log[j].rev
           /\ last.log[i].rev # last.args.revision



(***************************************************************************)
(* create-branch / update-branch: reporting                                *)
(***************************************************************************)
\* the lines the user is shown that carry the given text
LinesWith(text) ==
    {i \in 1..Len(last.printed) : text \in Range(last.printed[i])}
WarningsWith(text) ==
    {i \in 1..Len(last.warnings) : text \in Range(last.warnings[i])}

\* C15 as stated: when the create-branch / update-branch command ends,
\* every repository whose action failed has been reported to the user by
\* name with its error message, so a run with a failure does not end like a
\* full success
C15_FailuresReportedByName ==
    (last.op = "git_operate_base" /\ last.ok) =>
        \A key \in DOMAIN last.ret :
            \/ \E i \in LinesWith(key) : last.ret[key] \in Range(last.printed[i])
            \/ WarningsWith(key) # {}

\* C15, what the command does show: one logged warning per failed action,
\* carrying the operation and the revision but not the repository; nothing
\* is printed at the end and the command ends without error
C15_FailuresOnlyWarned ==
    (last.op = "git_operate_base" /\ last.ok) =>
        /\ Len(last.warnings) = Cardinality(DOMAIN last.ret)
        /\ last.printed = <<>>
        /\ \A key \in DOMAIN last.ret : WarningsWith(key) = {}

\* C15 witness: the command ended without error although the action failed
\* in a module, and no line names that module
C15_Witness ==
    /\ last.op = "git_operate_base" /\ last.ok
    /\ \E m \in EnabledBefore :
           /\ m \in DOMAIN last.ret
           /\ LinesWith(m) = {} /\ WarningsWith(m) = {}



(***************************************************************************)
(* create_pull_request: precondition failures                              *)
(***************************************************************************)
\* the last command stopped because a remote could not be resolved
RemoteUnresolved ==
    /\ ~last.ok /\ Len(last.log) >= 1
    /\ last.log[Len(last.log)].cmd = "determine_remote"
    /\ ~last.log[Len(last.log)].ok

\* the last create_pull_request failed on one of its preconditions
PreconditionFailed ==
    /\ last.op = "pull_request"
    /\ (ProtectedAt # {} \/ RemoteUnresolved)

\* positions of the calls with an effect outside the working copies
PushesAt == {i \in LogIdx : last.log[i].cmd = "push"}
RemoteEffectsAt == {i \in LogIdx : last.log[i].cmd \in {"push", "pr_create", "pr_comment"}}

\* C16 as stated: when create_pull_request fails because a changed
\* repository is on a protected branch or its remote cannot be resolved,
\* nothing has been pushed, no pull request created and no comment posted
C16_PreconditionFailureHasNoEffect ==
    PreconditionFailed => RemoteEffectsAt = {}

\* C16, what holds: on such a failure no pull request has been created and
\* no comment posted; nothing has been pushed if a remote could not be
\* resolved, and on a protected branch only the changed repositories that
\* come before the protected one have been pushed
C16_PreconditionFailureBeforePullRequests ==
    PreconditionFailed =>
        /\ RemoteEffectsAt = PushesAt
        /\ RemoteUnresolved => PushesAt = {}
        /\ \A i \in PushesAt :
               /\ last.args.branches[last.log[i].repo] \notin PROTECTED_BRANCHES
               /\ \A j \in ProtectedAt : i < j

\* C16 witness: create_pull_request failed on a protected branch of its
\* second changed repository after the first one was pushed, without any
\* pull request
C16_Witness ==
    /\ PreconditionFailed /\ ~RemoteUnresolved
    /\ Cardinality(PushesAt) = 1
    /\ \A i \in LogIdx : last.log[i].cmd # "pr_create"



(***************************************************************************)
(* has_commitable_change                                                   *)
(***************************************************************************)
\* every line of the status is an untracked file / an unstaged tracked change
OnlyUntracked(status) ==
    /\ status # <<>>
    /\ \A i \in 1..Len(status) : status[i][1] = "?" /\ status[i][2] = "?"
OnlyUnstaged(status) ==
    /\ status # <<>>
    /\ \A i \in 1..Len(status) : status[i][1] = " " /\ status[i][2] \notin {" ", "?"}

\* C17: has_commitable_change(add, repo) is true exactly if the short status
\* has a line that does not start with "??" and, without add, has a
\* non-blank first column; only untracked lines give false for both values
\* of add; only unstaged tracked changes give false without add, true with
C17_CommitableChangeDefinition ==
    last.op = "commit" =>
        \A r \in DOMAIN last.args.status :
            LET status == last.args.status[r] IN
            /\ \A add \in BOOLEAN :
                   has_commitable_change(add, status) <=>
                       \E i \in 1..Len(status) : CommittableLine(add, status[i])
            /\ OnlyUntracked(status) =>
                   /\ ~has_commitable_change(TRUE, status)
                   /\ ~has_commitable_change(FALSE, status)
            /\ OnlyUnstaged(status) =>
                   /\ ~has_commitable_change(FALSE, status)
                   /\ has_commitable_change(TRUE, status)
            /\ last.ok =>
                   (r \in CommittedRepos <=> has_commitable_change(last.args.add, status))

\* C17 witness: a commit with --add returned after committing a repository
\* whose status holds only an unstaged change and leaving out one whose
\* status holds only an untracked file
C17_Witness ==
    /\ last.op = "commit" /\ last.ok /\ last.args.add
    /\ \E r, q \in DOMAIN last.args.status :
           /\ OnlyUnstaged(last.args.status[r]) /\ r \in CommittedRepos
           /\ OnlyUntracked(last.args.status[q]) /\ q \notin CommittedRepos



(***************************************************************************)
(* update_branch / pull: strategy                                          *)
(***************************************************************************)
\* the strategy the rebase flag of the last command asks for
AskedStrategy == IF last.args.rebase THEN "rebase" ELSE "merge"

\* positions of the base update and of the module sync moves
BaseUpdatesAt ==
    {i \in LogIdx : /\ last.log[i].repo = BASE_REPO /\ last.log[i].tool = "git"
                    /\ last.log[i].cmd \in {"rebase", "merge", "pull"}}
ModuleMovesAt ==
    {i \in LogIdx : /\ last.log[i].by = "sync_all_modules" /\ last.log[i].tool = "git"
                    /\ last.log[i].cmd \in {"checkout", "rebase", "merge"}}

\* positions of the fetches update_branch makes itself, before the base update
OwnFetchesAt(repo) ==
    {i \in LogIdx : /\ last.log[i].cmd = "fetch" /\ last.log[i].repo = repo
                    /\ last.log[i].by # "sync_all_modules"}

SyncCallsAt == {i \in LogIdx : last.log[i].by = "sync_all_modules"}

\* positions at which a sync of all modules starts (its module lookup)
SyncStartsAt == {i \in SyncCallsAt : last.log[i].cmd = "get_module_map"}

\* C19: a successful create_branch first checks out the base revision in
\* the base repo, then syncs all enabled modules once, and only then creates
\* the branch, exactly once in the base repo and in every enabled module;
\* it returns the names of all those repositories
C19_CreateBranchOrder ==
    (last.op = "create_branch" /\ last.ok) =>
        /\ last.log[1].cmd = "checkout" /\ last.log[1].repo = BASE_REPO
        /\ last.log[1].rev = last.args.branch_base /\ last.log[1].br = NoValue
        /\ Cardinality(SyncStartsAt) = 1
        /\ \A i \in SyncCallsAt : 1 < i /\ \A j \in BranchCreations : i < j
        /\ \A m \in EnabledBefore :
               Cardinality({i \in SyncCallsAt : /\ last.log[i].cmd = "checkout"
                                                /\ last.log[i].repo = m
                                                /\ last.log[i].rev = last.args.manifest.mods[m]}) = 1
        /\ \A r \in CollectedBefore :
               Cardinality({i \in BranchCreations : last.log[i].repo = r}) = 1
        /\ \A i \in BranchCreations : last.log[i].repo \in CollectedBefore
        /\ Range(last.ret) = CollectedBefore
        /\ Len(last.ret) = Cardinality(CollectedBefore)

\* C19 witness: create_branch returned after creating the branch in the
\* base repo and in two modules it had synced before
C19_Witness ==
    /\ last.op = "create_branch" /\ last.ok
    /\ Cardinality(BranchCreations) = 3
    /\ Len(last.ret) = 3
    /\ \E i \in SyncCallsAt : last.log[i].cmd = "checkout"



(***************************************************************************)
(* switch_branch / delete_branch / branch_list / status                    *)
(***************************************************************************)
UniformOps == {"switch_branch", "delete_branch", "branch_list", "status"}

\* the git command each of them runs in a repository
PrimitiveOf(op) ==
    CASE op = "switch_branch" -> "checkout"
      [] op = "delete_branch" -> "branch"
      [] op = "branch_list"   -> "branch"
      [] op = "status"        -> "status"

\* positions of the git / gh calls of the last command
VcsCallsAt == {i \in LogIdx : last.log[i].tool \in {"git", "gh"}}

\* the repository an entry of the returned list is for
EntryName(entry) ==
    IF last.op \in {"branch_list", "status"} THEN entry.module_name ELSE entry

\* C20: switch_branch, delete_branch, branch_list and status run their git
\* command at most once in each collected repository and nothing else, and
\* never fetch a manifest; when they return they have run it exactly once in
\* the base repo and in every enabled module, and return exactly one entry
\* per repository, carrying its name
C20_UniformOverRepositories ==
    last.op \in UniformOps =>
        /\ \A i \in VcsCallsAt :
               /\ last.log[i].cmd = PrimitiveOf(last.op)
               /\ last.log[i].repo \in CollectedBefore
               /\ \A j \in VcsCallsAt : last.log[j].repo = last.log[i].repo => i = j
        /\ \A i \in LogIdx : last.log[i].cmd \notin {"get_manifest", "merge_base"}
        /\ last.ok =>
               /\ {last.log[i].repo : i \in VcsCallsAt} = CollectedBefore
               /\ Len(last.ret) = Cardinality(CollectedBefore)
               /\ {EntryName(last.ret[i]) : i \in 1..Len(last.ret)} = CollectedBefore

\* C20 witness: one of the four commands returned three entries after
\* running its git command in two modules and the base repo
C20_Witness ==
    /\ last.op \in UniformOps /\ last.ok
    /\ Len(last.ret) = 3
    /\ Cardinality(VcsCallsAt) = 3

(***************************************************************************)
(* C21, C22: refusals of enable and disable                                *)
(***************************************************************************)
DisableOfDisabledCase ==
    /\ last.op = "disable"
    /\ ConfigRead
    /\ last.args.name \in Modules
    /\ ~path_exists_link(last.args.name, last.pre.links, last.pre.clones)

\* C21: disable of a declared module whose link path does not exist fails
\* with NotEnabled and changes nothing: no link is removed, the shared
\* clones and the directories are as before, and the only call made is the
\* configuration lookup
C21_DisableOfDisabledFailsUntouched ==
    DisableOfDisabledCase =>
        /\ ~last.ok
        /\ last.err = "NotEnabled"
        /\ FilesystemUnchanged
        /\ \A i \in LogIdx : last.log[i].cmd = "get_module_map"

\* C21 witness: disable of a module that is not enabled was refused while
\* its shared clone and the link of another module exist
C21_Witness ==
    /\ DisableOfDisabledCase
    /\ last.err = "NotEnabled"
    /\ last.args.name \in clones
    /\ links # {}

UndeclaredCase ==
    /\ last.op \in {"enable", "disable"}
    /\ last.args.name \notin Modules

\* C22: enable and disable of a name the configuration does not declare
\* fail, with ModuleUnknown once the configuration was read, before any
\* filesystem or git action: the only call is the configuration lookup and
\* directories, clones and links are as before
C22_UndeclaredRefusedBeforeAnyAction ==
    UndeclaredCase =>
        /\ ~last.ok
        /\ ConfigRead => last.err = "ModuleUnknown"
        /\ \A i \in LogIdx : last.log[i].tool \notin {"fs", "git"}
        /\ \A i \in LogIdx : last.log[i].cmd = "get_module_map"
        /\ FilesystemUnchanged

\* C22 witness: enable with sync of an undeclared name was refused with
\* ModuleUnknown while a module is enabled
C22_Witness ==
    /\ UndeclaredCase
    /\ last.op = "enable" /\ last.args.sync_commit
    /\ ConfigRead
    /\ last.err = "ModuleUnknown"
    /\ links # {}

\* C22, the disable half reached: disable of an undeclared name refused
C22_DisableReached ==
    UndeclaredCase /\ last.op = "disable" /\ last.err = "ModuleUnknown"

(***************************************************************************)
(* C23, C24: patches and commit-queue entries                              *)
(***************************************************************************)
PatchOps == {"patch", "commit_queue"}

\* positions of the log that hold a run of the evergreen client
CliCallsAt   == {i \in LogIdx : last.log[i].tool = "evergreen"}
CreatesAt    == {i \in CliCallsAt : last.log[i].cmd \in {"patch", "commit-queue merge"}}
AttachesAt   == {i \in CliCallsAt :
                    last.log[i].cmd \in {"patch-set-module", "commit-queue set-module"}}
FinalizesAt  == {i \in CliCallsAt : last.log[i].cmd = "commit-queue merge --resume"}

\* the id and the url the create call printed
IdsPrinted  == {l.value : l \in {x \in Range(last.args.cmd_output) : x.key = "ID"}}
UrlsPrinted == {l.value : l \in {x \in Range(last.args.cmd_output) : x.key = "Build"}}

\* C23: create_cq_patch follows create, attach, finalize: the first run of
\* the client creates the paused entry, every attach follows the successful
\* create and carries the id the create printed, finalize is run at most
\* once, with that id, after every attach has succeeded; a call that
\* returns has finalized exactly once, as its last step, also with no
\* enabled module
C23_CreateAttachFinalize ==
    last.op = "commit_queue" =>
        /\ \A i \in CreatesAt :
               /\ i = Min(CliCallsAt)
               /\ last.log[i].cmd = "commit-queue merge"
               /\ "--pause" \in Range(last.log[i].data)
        /\ Cardinality(CreatesAt) <= 1
        /\ \A i \in AttachesAt \cup FinalizesAt :
               /\ \E c \in CreatesAt : c < i /\ last.log[c].ok
               /\ IdsPrinted = {last.log[i].rev}
        /\ \A i \in AttachesAt : last.log[i].cmd = "commit-queue set-module"
        /\ \A i \in FinalizesAt :
               /\ \A a \in AttachesAt : a < i /\ last.log[a].ok
               /\ Cardinality(AttachesAt) = Cardinality(EnabledBefore)
        /\ Cardinality(FinalizesAt) <= 1
        /\ last.ok =>
               /\ Cardinality(FinalizesAt) = 1
               /\ FinalizesAt = {Len(last.log)}

\* C23 witness: a commit-queue entry was created, two modules attached to
\* it and the entry finalized
C23_Witness ==
    /\ last.op = "commit_queue" /\ last.ok
    /\ Cardinality(AttachesAt) = 2
    /\ Cardinality(FinalizesAt) = 1

\* C23, no enabled module: the entry was created and finalized right away
C23_NoModuleReached ==
    /\ last.op = "commit_queue" /\ last.ok
    /\ EnabledBefore = {} /\ AttachesAt = {}
    /\ Cardinality(FinalizesAt) = 1

\* C24: create_patch and create_cq_patch attach only modules that were
\* enabled when the call started, each at most once and from its link
\* path; a call that returns has attached exactly the enabled modules and
\* returns the id and the url the create call printed
C24_AttachExactlyEnabled ==
    last.op \in PatchOps =>
        /\ \A i \in AttachesAt :
               /\ last.log[i].repo \in EnabledBefore
               /\ last.log[i].dir = ModuleDir(last.log[i].repo)
               /\ \A j \in AttachesAt : last.log[j].repo = last.log[i].repo => i = j
        /\ last.ok =>
               /\ {last.log[i].repo : i \in AttachesAt} = EnabledBefore
               /\ IdsPrinted = {last.ret.patch_id}
               /\ UrlsPrinted = {last.ret.patch_url}

\* C24 witness: a patch was submitted with one of two declared modules
\* enabled, and that module alone was attached
C24_Witness ==
    /\ last.op = "patch" /\ last.ok
    /\ Cardinality(EnabledBefore) = 1
    /\ Cardinality(AttachesAt) = 1
    /\ last.ret.patch_id = "patch_2"

(***************************************************************************)
(* C25: validate_github before the pull-request command                    *)
(***************************************************************************)
PullRequestCommandCase == last.op = "pull_request_command"

RefusedAsUsageError ==
    /\ ~last.ok
    /\ last.err = "UsageError"
    /\ RemoteEffectsAt = {}

\* C25 as stated: the pull-request command fails with a usage error when gh
\* is not on the PATH and when gh is there but the user is not
\* authenticated, and pushes nothing and creates no pull request unless gh
\* is there and the user is authenticated
C25_ValidateGithubGuardsPullRequest ==
    PullRequestCommandCase =>
        /\ ~last.args.on_path => RefusedAsUsageError
        /\ (last.args.on_path /\ ~last.args.authenticated) => RefusedAsUsageError
        /\ RemoteEffectsAt # {} => (last.args.on_path /\ last.args.authenticated)

\* C25, what holds: without gh on the PATH the command fails with a usage
\* error after the lookup of gh alone, so a push or a pull request implies
\* that gh was found; the login state is never asked of gh
C25_GhPresenceGuardsPullRequest ==
    PullRequestCommandCase =>
        /\ ~last.args.on_path =>
               /\ RefusedAsUsageError
               /\ \A i \in LogIdx : last.log[i].cmd = "which"
        /\ RemoteEffectsAt # {} => last.args.on_path
        /\ \A i \in LogIdx : last.log[i].cmd # "auth_status"

\* C25 witness: with gh installed and the user not authenticated the
\* command went on to push a branch and ask for a pull request
C25_Witness ==
    /\ PullRequestCommandCase
    /\ last.args.on_path /\ ~last.args.authenticated
    /\ PushesAt # {}
    /\ \E i \in LogIdx : last.log[i].cmd = "pr_create"

(***************************************************************************)
(* C26: the list of modules                                                *)
(***************************************************************************)
\* declared modules whose link path exists now
LinkedNow == {m \in Modules : m \in links /\ m \in clones}

\* C26: whatever enable and disable commands came before, list-modules
\* with the enabled flag returns exactly the declared modules whose link
\* path exists when it is called, and without the flag every declared
\* module, each once and in configuration order
C26_ListFollowsTheFilesystem ==
    (last.op = "list_modules" /\ last.ok) =>
        /\ Range(last.ret) = IF last.args.enabled THEN LinkedNow ELSE Modules
        /\ Len(last.ret) = Cardinality(Range(last.ret))
        /\ \A i, j \in 1..Len(last.ret) :
               i < j => IndexOf(last.ret[i]) < IndexOf(last.ret[j])
        /\ FilesystemUnchanged

\* C26 witness: two modules have been enabled and one of them disabled
\* again (both shared clones exist), and the enabled list holds the other
C26_Witness ==
    /\ last.op = "list_modules" /\ last.ok
    /\ last.args.enabled
    /\ Cardinality(clones) = 2
    /\ Len(last.ret) = 1
    /\ Range(last.ret) = links

(***************************************************************************)
(* C27: the arguments of gh pr create                                      *)
(***************************************************************************)
PrOps == {"pull_request", "pull_request_command"}

\* positions at which gh pr create was run
PrCreatesAt == {i \in LogIdx : last.log[i].cmd = "pr_create"}

EmptyBody == ""

\* the arguments of every gh pr create: the given title or else the latest
\* commit message of that repository, the given body or else defaultBody,
\* and the head branch and the target repository exactly when the remote
\* resolved for the repository is not the default remote
PrArgumentsWith(defaultBody) ==
    \A i \in PrCreatesAt :
        LET repo   == last.log[i].repo
            args   == last.log[i].data
            remote == last.args.remotes[repo]
        IN  /\ Len(args) >= 4
            /\ args[1] = "--title"
            /\ args[2] = IF last.args.title # NoValue THEN last.args.title
                          ELSE "last commit of " \o repo
            /\ (last.args.title = NoValue) <=>
                   \E j \in 1..(i - 1) : /\ last.log[j].cmd = "commit_message"
                                          /\ last.log[j].repo = repo
            /\ args[3] = "--body"
            /\ args[4] = IF last.args.body # NoValue THEN last.args.body
                          ELSE defaultBody
            /\ remote = DEFAULT_REMOTE => Len(args) = 4
            /\ remote # DEFAULT_REMOTE =>
                   /\ Len(args) = 8
                   /\ SubSeq(args, 5, 8) =
                          <<"--head", last.args.branches[repo], "--repo", remote>>

\* C27 as stated: each pull request gets the given title or else the
\* repository's latest commit message, the given body or else an empty
\* body, and the head branch and target repository arguments exactly when
\* the resolved remote is not the default remote
C27_ArgumentsWithEmptyDefaultBody ==
    last.op \in PrOps => PrArgumentsWith(EmptyBody)

\* C27, what holds: the same with the two-character string of two
\* apostrophes as the body of a pull request made without a body
C27_ArgumentsWithQuotedDefaultBody ==
    last.op \in PrOps => PrArgumentsWith("''")

\* C27 witness: pull requests were asked for without title and body in two
\* repositories, one resolved to the default remote and one to another
C27_Witness ==
    /\ last.op = "pull_request"
    /\ last.args.title = NoValue /\ last.args.body = NoValue
    /\ \E i, j \in PrCreatesAt :
           /\ last.args.remotes[last.log[i].repo] = DEFAULT_REMOTE
           /\ last.args.remotes[last.log[j].repo] # DEFAULT_REMOTE
           /\ Len(last.log[j].data) = 8

(***************************************************************************)
(* C28: git_operate_base, the order of base action, manifest and modules   *)
(***************************************************************************)
\* positions of the action on the base repo and on the modules
BaseActionAt   == {i \in ActionCallsAt : last.log[i].repo = BASE_REPO}
ModuleActionAt == {i \in ActionCallsAt : last.log[i].repo # BASE_REPO}

\* positions of the steps of the manifest lookup
MergeBaseAt   == {i \in LogIdx : last.log[i].cmd = "merge_base"}
GetManifestAt == {i \in LogIdx : last.log[i].cmd = "get_manifest"}
ManifestLookupAt ==
    {i \in LogIdx : last.log[i].cmd \in {"get_project_branch", "merge_base", "get_manifest"}}

\* C28: in git_operate_base the action on the base repo is attempted
\* first, before every step of the manifest lookup and before every module
\* action, also when it fails; the merge-base is taken once, in the base
\* repo, between the project branch and HEAD, after the base action; the
\* manifest is fetched once, for that merge-base, before the first module
\* action, and every module is operated at the revision that manifest pins
C28_BaseThenManifestThenModules ==
    last.op = "git_operate_base" =>
        /\ BaseActionAt = {1}
        /\ \A i \in ManifestLookupAt \cup ModuleActionAt : \A b \in BaseActionAt : b < i
        /\ Cardinality(MergeBaseAt) <= 1 /\ Cardinality(GetManifestAt) <= 1
        /\ \A i \in MergeBaseAt :
               /\ last.log[i].repo = BASE_REPO /\ last.log[i].dir = NoDir
               /\ last.log[i].rev = "HEAD" /\ last.log[i].br = ProjectBranch
        /\ \A i \in GetManifestAt :
               /\ last.log[i].rev = "merge_base"
               /\ \E j \in MergeBaseAt : j < i /\ last.log[j].ok
        /\ \A i \in ModuleActionAt :
               /\ \E j \in GetManifestAt : j < i /\ last.log[j].ok
               /\ last.log[i].rev = last.args.manifest.mods[last.log[i].repo]

\* C28 witness: the base action failed, the manifest was fetched after it
\* and two modules were operated
C28_Witness ==
    /\ last.op = "git_operate_base"
    /\ BASE_REPO \in FailedActionRepos
    /\ GetManifestAt # {}
    /\ Cardinality(ModuleActionAt) = 2

(***************************************************************************)
(* C29: git_operate_base with a module missing from the manifest           *)
(***************************************************************************)
\* enabled modules the manifest has no entry for, and the others
MissingModules == EnabledBefore \ DOMAIN last.args.manifest.mods
PinnedModules  == EnabledBefore \cap DOMAIN last.args.manifest.mods

\* git_operate_base reached the loop over the modules, one of which has no
\* entry in the manifest
MissingModuleCase ==
    /\ last.op = "git_operate_base"
    /\ last.args.manifest.has
    /\ MissingModules # {}
    /\ \A i \in LogIdx : last.log[i].cmd \notin GitActions => last.log[i].ok

\* the first enabled module, in configuration order, without an entry
FirstMissing ==
    CHOOSE m \in MissingModules :
        \A n \in MissingModules : IndexOf(m) <= IndexOf(n)

\* C29 as stated: an enabled module absent from the manifest makes only
\* that module's action fail: the action is attempted on every other
\* enabled module that the manifest pins, and the map returned holds the
\* failures recorded for the base repo and for the modules
C29_MissingModuleFailsAlone ==
    MissingModuleCase =>
        /\ \A m \in PinnedModules : Cardinality(CallsOf(last.args.operation, m)) = 1
        /\ \A m \in MissingModules : CallsOf(last.args.operation, m) = {}
        /\ \A r \in FailedActionRepos : ErrorKey(r) \in DOMAIN last.ret

\* C29, what holds: the first enabled module without an entry ends the
\* whole call with ModuleNotInManifest: the action has been attempted once
\* on the base repo and on the pinned modules before that module, on no
\* module after it, and no error map is returned
C29_MissingModuleAborts ==
    MissingModuleCase =>
        /\ ~last.ok
        /\ last.err = "ModuleNotInManifest"
        /\ last.ret = <<>>
        /\ Cardinality(CallsOf(last.args.operation, BASE_REPO)) = 1
        /\ \A m \in EnabledBefore :
               Cardinality(CallsOf(last.args.operation, m)) =
                   IF IndexOf(m) < IndexOf(FirstMissing) THEN 1 ELSE 0

\* C29 witness: the first of two enabled modules has no entry, the second
\* has one and was not operated, and the failure of the base action is in
\* no returned map
C29_Witness ==
    /\ MissingModuleCase
    /\ Cardinality(EnabledBefore) = 2
    /\ \E m \in PinnedModules : /\ IndexOf(FirstMissing) < IndexOf(m)
                                 /\ CallsOf(last.args.operation, m) = {}
    /\ BASE_REPO \in FailedActionRepos
    /\ ~last.ok

(***************************************************************************)
(* C30: the order of sync                                                  *)
(***************************************************************************)
\* enable of a declared module with the sync to the manifest asked for
SyncCase ==
    /\ last.op = "enable"
    /\ last.args.sync_commit
    /\ last.args.name \in Modules

\* positions of the fetch and of the move of the synced module
SyncFetchAt == CallsOf("fetch", last.args.name)
SyncMoveAt  ==
    {i \in LogIdx : /\ last.log[i].tool = "git"
                    /\ last.log[i].repo = last.args.name
                    /\ last.log[i].cmd \in GitActions}

\* the manifest pins a revision for the synced module
RevisionResolved ==
    /\ last.args.manifest.has
    /\ last.args.name \in DOMAIN last.args.manifest.mods
    /\ \E g \in GetManifestAt : last.log[g].ok

\* C30: sync resolves the revision, fetches, then moves: the fetch runs at
\* most once, in prefix/name, after the manifest was fetched and only when
\* it pins a revision for the module; the move runs at most once, in
\* prefix/name, to the pinned revision, after the fetch has succeeded; an
\* enable with sync that returns has done the three in that order
C30_ResolveFetchMove ==
    SyncCase =>
        /\ Cardinality(SyncFetchAt) <= 1 /\ Cardinality(SyncMoveAt) <= 1
        /\ \A f \in SyncFetchAt :
               /\ RevisionResolved
               /\ \A g \in GetManifestAt : g < f
               /\ last.log[f].dir = ModuleDir(last.args.name)
        /\ \A v \in SyncMoveAt :
               /\ \E f \in SyncFetchAt : f < v /\ last.log[f].ok
               /\ last.log[v].dir = ModuleDir(last.args.name)
               /\ last.log[v].rev = last.args.manifest.mods[last.args.name]
        /\ last.ok =>
               /\ RevisionResolved
               /\ Cardinality(SyncFetchAt) = 1 /\ Cardinality(SyncMoveAt) = 1

\* C30 witness: an enable with sync fetched the manifest, fetched the
\* module and checked out the pinned revision
C30_Witness ==
    /\ SyncCase /\ last.ok
    /\ \E g \in GetManifestAt, f \in SyncFetchAt, v \in SyncMoveAt :
           g < f /\ f < v /\ last.log[v].rev = "rev_2"

\* C30, the refusal reached: the manifest pins nothing for the module and
\* neither fetch nor checkout ran
C30_UnresolvedReached ==
    /\ SyncCase /\ ~RevisionResolved
    /\ GetManifestAt # {}
    /\ SyncFetchAt = {} /\ SyncMoveAt = {}

(***************************************************************************)
(* C31: Absent -> Cloned -> Linked over enable and disable                 *)
(***************************************************************************)
\* positions of the clone and of the link creation in the next command
ClonesIn(log)   == {i \in 1..Len(log) : log[i].cmd = "clone"}
SymlinksIn(log) == {i \in 1..Len(log) : log[i].cmd = "symlink"}

\* one command, from the filesystem before it to the filesystem after it
CloneThenLinkStep ==
    /\ clones \subseteq clones'
    /\ \A i \in ClonesIn(last'.log) :
           /\ last'.op = "enable"
           /\ last'.log[i].repo = last'.args.name
           /\ last'.log[i].repo \notin clones
           /\ \A j \in ClonesIn(last'.log) : i = j
    /\ \A m \in clones' \ clones :
           \E i \in ClonesIn(last'.log) : last'.log[i].repo = m /\ last'.log[i].ok
    /\ \A s \in SymlinksIn(last'.log) :
           /\ last'.op = "enable"
           /\ \A i \in ClonesIn(last'.log) : i < s /\ last'.log[i].ok
           /\ last'.log[s].repo \in clones'
    /\ \A m \in links' \ links :
           /\ m \in clones'
           /\ \E s \in SymlinksIn(last'.log) : last'.log[s].repo = m /\ last'.log[s].ok

\* C31: in every step a shared clone is never lost; a clone runs only in
\* enable, for the enabled module, at most once, and only when its shared
\* clone does not exist, so a module is cloned at most once over the whole
\* run; a link is created only by enable, after the clone if there is one,
\* and only towards a shared clone that exists
C31_AbsentClonedLinked == [][CloneThenLinkStep]_vars

\* C31 witness: a module that was enabled and disabled before (its shared
\* clone exists, its link does not) was enabled again without a clone
C31_Witness ==
    /\ last.op = "enable" /\ last.ok
    /\ last.args.name \in last.pre.clones
    /\ last.args.name \notin last.pre.links
    /\ last.args.name \in links
    /\ ClonesIn(last.log) = {}

(***************************************************************************)
(* C32: create_branch, all repositories or none                            *)
(***************************************************************************)
\* repositories in which the last create_branch created the branch
BranchCreatedIn ==
    {last.log[i].repo : i \in {j \in BranchCreations : last.log[j].ok}}

\* C32 as stated: however create_branch ends, the new branch exists in all
\* participating repositories (the base repo and the enabled modules) or in
\* none of them
C32_BranchInAllOrNone ==
    last.op = "create_branch" =>
        BranchCreatedIn \in {{}, CollectedBefore}

\* C32, what holds: a create_branch that returns has created the branch in
\* every participating repository; one that fails has created it in the
\* repositories collected before the failing one, which stay as they are,
\* and ends with the error of the failed call
C32_BranchInAllOrInAPrefix ==
    last.op = "create_branch" =>
        /\ last.ok => BranchCreatedIn = CollectedBefore
        /\ ~last.ok =>
               /\ last.err # ""
               /\ BranchCreatedIn # CollectedBefore
               /\ \E n \in 0..Len(ReposBefore) :
                      BranchCreatedIn = {ReposBefore[k].name : k \in 1..n}

\* C32 witness: create_branch failed in the last of three repositories and
\* left the branch behind in the other two
C32_Witness ==
    /\ last.op = "create_branch" /\ ~last.ok
    /\ Cardinality(CollectedBefore) = 3
    /\ Cardinality(BranchCreatedIn) = 2

(***************************************************************************)
(* C33: the phases of create_pull_request                                  *)
(***************************************************************************)
\* positions of the calls of each phase
ResolvesAt == {i \in LogIdx : last.log[i].cmd = "determine_remote"}

\* every changed repository has passed the phase: one successful call each
PhaseDone(at) ==
    /\ \A i \in at : last.log[i].ok
    /\ {last.log[i].repo : i \in at} = WithDiff
    /\ Cardinality(at) = Cardinality(WithDiff)

\* a resolve or a push failed, or a push was refused
ResolveOrPushFailed ==
    \/ \E i \in ResolvesAt \cup PushesAt : ~last.log[i].ok
    \/ ProtectedAt # {}

\* C33: create_pull_request works in phases over the changed
\* repositories: every remote is resolved before the first push, every
\* branch is pushed before the first pull request is created, every pull
\* request is created before the first comment is posted; so when a
\* resolve or a push fails no pull request has been created at all
C33_StrictPhases ==
    last.op \in PrOps =>
        /\ \A r \in ResolvesAt, p \in PushesAt : r < p
        /\ \A p \in PushesAt, c \in PrCreatesAt : p < c
        /\ \A c \in PrCreatesAt, m \in CommentsAt : c < m
        /\ PushesAt # {} => PhaseDone(ResolvesAt)
        /\ PrCreatesAt # {} => PhaseDone(PushesAt)
        /\ CommentsAt # {} => PhaseDone(PrCreatesAt)
        /\ ResolveOrPushFailed => PrCreatesAt = {}

\* C33 witness: with three changed repositories the push of the third
\* failed after two pushes, and no pull request was asked for
C33_Witness ==
    /\ last.op = "pull_request"
    /\ Cardinality(WithDiff) = 3
    /\ Cardinality(PushesAt) = 3
    /\ \E i \in PushesAt : ~last.log[i].ok
    /\ PrCreatesAt = {}

\* C33, all phases reached: comments were posted after three pull requests
C33_AllPhasesReached ==
    /\ last.op = "pull_request" /\ last.ok
    /\ Cardinality(PrCreatesAt) = 3 /\ Cardinality(CommentsAt) = 3

(***************************************************************************)
(* C34: a link whose shared clone is gone (SpecDangling)                   *)
(***************************************************************************)
\* declared modules whose link is on disk, and those whose clone is gone
LinksOnDisk   == {m \in Modules : m \in links}
DanglingLinks == {m \in Modules : m \in links /\ m \notin clones}

\* the last command was given a declared module whose link was there
\* while its shared clone was gone
DanglingCase(op) ==
    /\ last.op = op
    /\ ConfigRead
    /\ last.args.name \in Modules
    /\ last.args.name \in last.pre.links
    /\ last.args.name \notin last.pre.clones

\* C34 as stated: a module whose link is present while its shared clone is
\* gone counts as enabled: enable fails with AlreadyEnabled and clones
\* nothing, disable removes the link, and the list of enabled modules
\* holds the module
C34_DanglingLinkCountsAsEnabled ==
    /\ DanglingCase("enable") =>
           /\ ~last.ok /\ last.err = "AlreadyEnabled"
           /\ ClonesIn(last.log) = {}
    /\ DanglingCase("disable") =>
           /\ last.ok
           /\ last.args.name \notin links
    /\ (last.op = "list_modules" /\ last.ok /\ last.args.enabled) =>
           LinksOnDisk \subseteq Range(last.ret)

\* C34, what holds: such a module counts as not enabled: enable runs the
\* clone, never fails with AlreadyEnabled, and once the clone is back
\* fails with FileExistsError on the link that is still there, without a
\* sync; disable fails with NotEnabled and leaves the link; the list of
\* enabled modules leaves the module out
C34_DanglingLinkCountsAsDisabled ==
    /\ DanglingCase("enable") =>
           /\ ~last.ok /\ last.err \in {ProcessError, "FileExistsError"}
           /\ Cardinality(ClonesIn(last.log)) = 1
           /\ last.err = "FileExistsError" =>
                  /\ last.args.name \in clones
                  /\ last.args.name \in links
           /\ GetManifestAt = {}
    /\ DanglingCase("disable") =>
           /\ ~last.ok /\ last.err = "NotEnabled"
           /\ last.args.name \in links
    /\ (last.op = "list_modules" /\ last.ok /\ last.args.enabled) =>
           Range(last.ret) = LinksOnDisk \ DanglingLinks

\* C34 witness: enable of a module with a link and no shared clone cloned
\* the module again and then failed on the existing link
C34_Witness ==
    /\ DanglingCase("enable")
    /\ last.err = "FileExistsError"
    /\ \E i \in ClonesIn(last.log) : last.log[i].ok

\* C34, the other two commands reached with such a link on disk
C34_DisableReached == DanglingCase("disable") /\ last.err = "NotEnabled"
C34_ListReached ==
    /\ last.op = "list_modules" /\ last.ok /\ last.args.enabled
    /\ DanglingLinks # {}

(***************************************************************************)
(* C35: the commands that run git and the check for the git executable     *)
(***************************************************************************)
\* the commands emm_cli.py and git_cli.py guard with validate_git_command
ValidatingCommands ==
    {"cli_create_branch", "cli_update_branch", "cli_git_commit",
     "git_branch_create", "git_branch_show", "git_branch_switch",
     "git_branch_delete", "git_branch_pull", "git_branch_update",
     "git_cli_status", "git_cli_commit", "git_cli_add", "git_cli_restore"}

\* the commands the statement names
GitRunningCommands == {"cli_enable"} \cup ValidatingCommands

\* the command started by looking git up on the PATH
GitLookedUpFirst ==
    /\ Len(last.log) >= 1
    /\ last.log[1].tool = "fs"
    /\ last.log[1].cmd = "which"
    /\ last.log[1].dir = <<"git">>

\* the command was refused with a usage error and did nothing else
RefusedForMissingGit ==
    /\ ~last.ok
    /\ last.err = "UsageError"
    /\ Len(last.log) = 1
    /\ FilesystemUnchanged

\* C35 (as stated): every command that runs git (enable, create-branch,
\* update-branch, git-commit and every git subcommand) first checks that git
\* is on the PATH, and without git fails with a usage error and performs no
\* VCS or filesystem action.
C35_GitCheckedFirst ==
    last.op \in GitRunningCommands =>
        /\ GitLookedUpFirst
        /\ ~last.args.git_on_path => RefusedForMissingGit

\* C35 (what the code does): create-branch, update-branch, git-commit and the
\* git subcommands check for git first and are refused with a usage error
\* without it; enable never checks, and without git it fails with the
\* attribute error of the git lookup, before any VCS or filesystem action.
C35_GitCheckedFirstExceptEnable ==
    /\ last.op \in ValidatingCommands =>
        /\ GitLookedUpFirst
        /\ ~last.args.git_on_path => RefusedForMissingGit
    /\ last.op = "cli_enable" =>
        /\ \A i \in LogIdx : last.log[i].cmd # "which"
        /\ ~last.args.git_on_path =>
            /\ ~last.ok
            /\ last.err = "AttributeError"
            /\ last.log = <<>>
            /\ FilesystemUnchanged

\* C35 witness: enable was run on a machine without git
C35_Witness ==
    /\ last.op = "cli_enable"
    /\ ~last.args.git_on_path
    /\ last.err = "AttributeError"

\* C35: a validating command was refused on a machine without git, and one
\* ran git after the check on a machine with git
C35_RefusedReached ==
    /\ last.op = "git_branch_create"
    /\ ~last.args.git_on_path
    /\ RefusedForMissingGit

C35_CheckedThenRan ==
    /\ last.op = "cli_create_branch"
    /\ last.args.git_on_path
    /\ last.ok
    /\ Len(last.log) > 1
    /\ \E i \in LogIdx : last.log[i].tool = "git"

(***************************************************************************)
(* C36: the bisect over dates                                              *)
(***************************************************************************)
\* the stored range, as datetimes
StoredStart(state) == string_to_datetime(state.start)
StoredEnd(state)   == string_to_datetime(state.end)
Width(state)       == StoredEnd(state) - StoredStart(state)

\* the last command was a mark on a started bisect
MarkOnStarted == last.op = "bisect_mark" /\ last.args.state # NoFile

\* the mark was refused for want of dates
MarkRefused == MarkOnStarted /\ ~last.ok /\ last.err = NoMoreDates

\* the mark stored a new range
MarkStored == MarkOnStarted /\ \E i \in LogIdx : last.log[i].cmd = "write_states"

\* the range the mark found, the midpoint bisect_in_dates gave for it
MarkedMid ==
    bisect_in_dates(StoredStart(last.args.state), StoredEnd(last.args.state))

\* the stored string is the midpoint without its fraction of a second
StoresMid(dates) ==
    /\ dates = datetime_to_string(MarkedMid)
    /\ string_to_datetime(dates) <= MarkedMid
    /\ MarkedMid - string_to_datetime(dates) < Second
    /\ StoredStart(last.args.state) < string_to_datetime(dates)
    /\ string_to_datetime(dates) < StoredEnd(last.args.state)

\* a mark replaces one end by the midpoint, which lies strictly inside the
\* range, or is refused and stores nothing
MarkOutcome ==
    MarkOnStarted =>
        /\ MarkRefused \/ MarkStored
        /\ MarkRefused => bisect = last.args.state
        /\ MarkStored =>
            /\ StoredStart(last.args.state) < MarkedMid
            /\ MarkedMid < StoredEnd(last.args.state)
            /\ last.args.bisect_action = "good" =>
                /\ StoresMid(bisect.start)
                /\ bisect.end = last.args.state.end
            /\ last.args.bisect_action = "bad" =>
                /\ StoresMid(bisect.end)
                /\ bisect.start = last.args.state.start
            /\ 0 < Width(bisect)
            /\ Width(bisect) < Width(last.args.state)

\* a started bisect that is not started again from some point on and is
\* marked again and again (a mark ends, and another one is run)
OnlyMarkedInTheEnd ==
    /\ <>(bisect # NoFile)
    /\ <>[](last.op # "bisect_start")
    /\ []<>(last.op = "bisect_mark")
    /\ []<>(last.op = "none")

\* C36: a good mark replaces only the stored start by the midpoint and a bad
\* mark only the stored end; the midpoint is strictly after the start and
\* strictly before the end, so every mark strictly shrinks the stored range;
\* a sequence of marks ends after finitely many steps with the error
\* "No more dates left.", which leaves the stored range unchanged.
C36_MarksShrinkAndEnd ==
    /\ []MarkOutcome
    /\ OnlyMarkedInTheEnd => <>[](last.op = "bisect_mark" => MarkRefused)

\* C36 witness: a good mark moved the start of a range of more than two days
\* between midnights to the midnight in the middle
C36_Witness ==
    /\ MarkStored
    /\ last.args.bisect_action = "good"
    /\ Width(last.args.state) > 2 * Day
    /\ hour_of(MarkedMid) = 0
    /\ bisect.start # last.args.state.start

\* C36: a mark was refused, and a bad mark moved the end
C36_RefusedReached ==
    /\ MarkRefused
    /\ bisect = last.args.state

C36_BadReached ==
    /\ MarkStored
    /\ last.args.bisect_action = "bad"
    /\ bisect.end # last.args.state.end

====
